------------------------ MODULE FarmCampaign_proofs ------------------------
(***************************************************************************)
(* The FarmCampaign contract for every number of investors, every set of   *)
(* milestones, roster, voting window and amount.                           *)
(*                                                                         *)
(*  - Disputes: a verdict is final, since a second dispute on a milestone  *)
(*    is impossible once the first has been raised (DisputeInv).           *)
(*  - Refunds and books prove each other (BooksInv): the bound on what an  *)
(*    investor gets back needs a total_raised that is not negative, and    *)
(*    that the stakes add up to total_raised needs stakes that are not.    *)
(*  - Splits: rounding down loses less than one stroop for each investor   *)
(*    who can take one more, so that the residue always finds takers.      *)
(*  - Types, the balance included.                                         *)
(*  - Cover: beside the refunds owed, the balance holds the part of the    *)
(*    raise the farmer has not had and the revenue not yet distributed     *)
(*    (CoverInv).                                                          *)
(*  - The projection of the campaign's disputes by DisputeListener never   *)
(*    claims more than the contract decided (ListenerInv), and converges   *)
(*    to it (ReplayInv).                                                   *)
(***************************************************************************)
EXTENDS FarmCampaign, DisputeListener, SumLemmas

-----------------------------------------------------------------------------
(* Disputes.                                                               *)

DisputeTypes ==
    /\ dispute \in [Milestones -> DisputeRecords]
    /\ now \in Nat /\ window \in Nat /\ raiseEnded \in BOOLEAN

\* No dispute can be raised on m again: it is frozen or released, or the
\* campaign is past the point where it could become active.
Closed(m) == m \in frozen \/ m \in released
               \/ (raiseEnded /\ status \notin {"Funded", "Active"})

\* A verdict belongs to a dispute, and a dispute blocks the next one.
Raised(m) ==
    /\ dispute[m].phase # "None" => Closed(m)
    /\ dispute[m].verdict # "None" => dispute[m].phase # "None"

DisputeInv == DisputeTypes /\ \A m \in Milestones : Raised(m)

LEMMA InitDispute == Init => DisputeInv
<1> SUFFICES ASSUME Init PROVE DisputeInv
  OBVIOUS
<1>1. NoDispute \in DisputeRecords
  BY DEF NoDispute, DisputeRecords
<1>2. DisputeTypes
  <2>1. Windows \subseteq Nat
    BY CampaignAssumption
  <2>2. dispute \in [Milestones -> DisputeRecords]
    BY <1>1 DEF Init
  <2> QED BY <2>1, <2>2 DEF Init, DisputeTypes
<1>3. ASSUME NEW m \in Milestones PROVE Raised(m)
  BY <1>3 DEF Init, NoDispute, Raised
<1> QED BY <1>2, <1>3 DEF DisputeInv

(* The steps that touch no dispute. *)
LEMMA QuietKeeps ==
  ASSUME DisputeInv, UNCHANGED <<dispute, frozen>>, released \subseteq released',
         now' \in Nat, window' \in Nat, raiseEnded' \in BOOLEAN, raiseEnded => raiseEnded',
         raiseEnded /\ status \notin {"Funded", "Active"} => status' \notin {"Funded", "Active"}
  PROVE  DisputeInv'
<1>1. DisputeTypes'
  BY DEF DisputeInv, DisputeTypes, DisputeRecords
<1>2. ASSUME NEW m \in Milestones PROVE Raised(m)'
  BY <1>2 DEF DisputeInv, Raised, Closed
<1> QED BY <1>1, <1>2 DEF DisputeInv

(* A step on the record of one milestone keeps the others. *)
LEMMA RecordKeeps ==
  ASSUME DisputeInv, NEW m \in Milestones, NEW d \in DisputeRecords,
         dispute' = [dispute EXCEPT ![m] = d],
         d.phase # "None", (m \in frozen' \/ m \in released'
               \/ (raiseEnded' /\ status' \notin {"Funded", "Active"})),
         frozen \ {m} \subseteq frozen', released \subseteq released',
         UNCHANGED <<now, window>>, raiseEnded' \in BOOLEAN, raiseEnded => raiseEnded',
         raiseEnded /\ status \notin {"Funded", "Active"} => status' \notin {"Funded", "Active"}
  PROVE  DisputeInv'
<1>1. DisputeTypes'
  BY DEF DisputeInv, DisputeTypes, DisputeRecords
<1>2. dispute'[m] = d /\ \A n \in Milestones : n # m => dispute'[n] = dispute[n]
  BY DEF DisputeInv, DisputeTypes
<1>3. ASSUME NEW n \in Milestones PROVE Raised(n)'
  <2>1. CASE n = m
    BY <1>2, <2>1 DEF Raised, Closed
  <2>2. CASE n # m
    BY <1>2, <2>2 DEF DisputeInv, Raised, Closed
  <2> QED BY <2>1, <2>2
<1> QED BY <1>1, <1>3 DEF DisputeInv

(* The records that votes and verdicts produce. *)
LEMMA VotedRecord ==
  ASSUME NEW d \in DisputeRecords, NEW vs \in SUBSET Arbitrators, NEW rel \in Nat,
         NEW ref \in Nat, NEW v \in {"None", "Release", "Refund"},
         NEW p \in {"Arbitration", "Verdict"}
  PROVE  [d EXCEPT !.voters = vs, !.release = rel, !.refund = ref, !.verdict = v, !.phase = p]
           \in {r \in DisputeRecords : r.phase # "None"}
<1> DEFINE r1 == [d EXCEPT !.voters = vs]
           r2 == [r1 EXCEPT !.release = rel]
           r3 == [r2 EXCEPT !.refund = ref]
           r4 == [r3 EXCEPT !.verdict = v]
           r5 == [r4 EXCEPT !.phase = p]
<1>1. r1 \in DisputeRecords
  BY DEF DisputeRecords
<1>2. r2 \in DisputeRecords
  <2> HIDE DEF r1
  <2> QED BY <1>1 DEF DisputeRecords
<1>3. r3 \in DisputeRecords
  <2> HIDE DEF r2
  <2> QED BY <1>2 DEF DisputeRecords
<1>4. r4 \in DisputeRecords
  <2> HIDE DEF r3
  <2> QED BY <1>3 DEF DisputeRecords
<1>5. r5 \in DisputeRecords /\ r5.phase = p
  <2> HIDE DEF r4
  <2> QED BY <1>4 DEF DisputeRecords
<1>6. r5 \in {r \in DisputeRecords : r.phase # "None"}
  <2> HIDE DEF r5
  <2> QED BY <1>5
<1> QED BY <1>6, Zenon

LEMMA CountedRecord ==
  ASSUME NEW d \in DisputeRecords, NEW a \in Arbitrators, NEW forFarmer \in BOOLEAN
  PROVE  Counted(d, a, forFarmer) \in DisputeRecords /\ Counted(d, a, forFarmer).phase # "None"
<1> DEFINE rel == d.release + (IF forFarmer THEN 1 ELSE 0)
           ref == d.refund + (IF forFarmer THEN 0 ELSE 1)
           verdict == IF rel >= VoteQuorum THEN "Release"
                      ELSE IF ref >= VoteQuorum THEN "Refund" ELSE "None"
           phase == IF verdict = "None" THEN "Arbitration" ELSE "Verdict"
<1>1. rel \in Nat /\ ref \in Nat
  BY DEF DisputeRecords
<1>2. verdict \in {"None", "Release", "Refund"} /\ phase \in {"Arbitration", "Verdict"}
  OBVIOUS
<1>3. Counted(d, a, forFarmer) =
        [d EXCEPT !.voters = d.voters \cup {a}, !.release = rel, !.refund = ref,
                  !.verdict = verdict, !.phase = phase]
  BY DEF Counted
<1>4. d.voters \cup {a} \in SUBSET Arbitrators
  BY DEF DisputeRecords
<1> HIDE DEF rel, ref, verdict, phase
<1>5. [d EXCEPT !.voters = d.voters \cup {a}, !.release = rel, !.refund = ref,
                !.verdict = verdict, !.phase = phase] \in {r \in DisputeRecords : r.phase # "None"}
  BY <1>1, <1>2, <1>4, VotedRecord
<1> QED BY <1>3, <1>5

LEMMA DecidedVerdict ==
  ASSUME NEW d \in DisputeRecords
  PROVE  Decided(d) \in {"Release", "Refund"} /\ (d.verdict # "None" => Decided(d) = d.verdict)
BY DEF Decided, DisputeRecords

LEMMA ResolvedRecord ==
  ASSUME NEW d \in DisputeRecords, NEW v \in {"Release", "Refund"},
         NEW p \in {"Verdict", "Resolved"}
  PROVE  /\ [d EXCEPT !.verdict = v, !.phase = p] \in DisputeRecords
         /\ [d EXCEPT !.verdict = v, !.phase = p].phase # "None"
         /\ [d EXCEPT !.verdict = v, !.phase = p].verdict = v
BY DEF DisputeRecords

LEMMA OpenRecord ==
  ASSUME NEW t \in Nat
  PROVE  /\ [NoDispute EXCEPT !.phase = "Open", !.deadline = t] \in DisputeRecords
         /\ [NoDispute EXCEPT !.phase = "Open", !.deadline = t].phase # "None"
BY DEF NoDispute, DisputeRecords

-----------------------------------------------------------------------------
(* raise_dispute: the guards leave only milestones without a verdict. *)
LEMMA RaiseKeeps ==
  ASSUME DisputeInv, NEW m \in Milestones, RaiseDispute(m)
  PROVE  DisputeInv' /\ VerdictStands
<1>1. /\ dispute' = [dispute EXCEPT ![m] =
                        [NoDispute EXCEPT !.phase = "Open", !.deadline = now + window]]
      /\ frozen' = frozen \cup {m} /\ m \notin frozen /\ m \notin released /\ status = "Active"
      /\ UNCHANGED <<released, now, window, raiseEnded, status>>
  BY DEF RaiseDispute, progress, settings
<1>2. now + window \in Nat /\ raiseEnded \in BOOLEAN /\ dispute \in [Milestones -> DisputeRecords]
  BY DEF DisputeInv, DisputeTypes
<1>3. DisputeInv'
  BY <1>1, <1>2, OpenRecord, RecordKeeps
<1>4. dispute[m].verdict = "None"
  BY <1>1 DEF DisputeInv, Raised, Closed
<1>5. VerdictStands
  BY <1>1, <1>2, <1>4 DEF VerdictStands
<1> QED BY <1>3, <1>5

LEMMA VoteKeeps ==
  ASSUME DisputeInv, NEW m \in Milestones, NEW a \in Arbitrators, NEW forFarmer \in BOOLEAN,
         CastDisputeVote(a, m, forFarmer)
  PROVE  DisputeInv' /\ VerdictStands
<1>1. /\ dispute[m].phase # "None" /\ dispute[m].verdict = "None"
      /\ dispute' = [dispute EXCEPT ![m] = Counted(dispute[m], a, forFarmer)]
      /\ UNCHANGED <<frozen, released, now, window, raiseEnded, status>>
  BY DEF CastDisputeVote, progress, settings
<1>2. raiseEnded \in BOOLEAN /\ dispute \in [Milestones -> DisputeRecords]
  BY DEF DisputeInv, DisputeTypes
<1>3. Closed(m)
  BY <1>1 DEF DisputeInv, Raised
<1>4. /\ Counted(dispute[m], a, forFarmer) \in DisputeRecords
      /\ Counted(dispute[m], a, forFarmer).phase # "None"
  BY <1>2, CountedRecord
<1>5. DisputeInv'
  BY <1>1, <1>2, <1>3, <1>4, RecordKeeps DEF Closed
<1>6. VerdictStands
  BY <1>1, <1>2 DEF VerdictStands
<1> QED BY <1>5, <1>6

LEMMA FinalizeKeeps ==
  ASSUME DisputeInv, NEW m \in Milestones, FinalizeDispute(m)
  PROVE  DisputeInv' /\ VerdictStands
<1> DEFINE d == [dispute[m] EXCEPT !.verdict = Decided(dispute[m]), !.phase = "Verdict"]
<1>1. raiseEnded \in BOOLEAN /\ dispute \in [Milestones -> DisputeRecords]
  BY DEF DisputeInv, DisputeTypes
<1>2. /\ dispute[m].phase # "None" /\ dispute[m].verdict = "None"
      /\ dispute' = [dispute EXCEPT ![m] = d]
      /\ UNCHANGED <<frozen, released, now, window, raiseEnded, status>>
  BY <1>1 DEF FinalizeDispute, progress, settings
<1>3. Closed(m)
  BY <1>2 DEF DisputeInv, Raised
<1>4. d \in DisputeRecords /\ d.phase # "None"
  <2>1. dispute[m] \in DisputeRecords
    BY <1>1
  <2>2. /\ Decided(dispute[m]) \in {"Release", "Refund"}
        /\ dispute[m].verdict # "None" => Decided(dispute[m]) = dispute[m].verdict
    BY <2>1, DecidedVerdict
  <2>3. d \in DisputeRecords /\ d.phase # "None" /\ d.verdict = Decided(dispute[m])
    BY <2>1, <2>2, ResolvedRecord, Zenon
  <2> HIDE DEF d
  <2> QED BY <2>2, <2>3
<1> HIDE DEF d
<1>5. DisputeInv'
  BY <1>1, <1>2, <1>3, <1>4, RecordKeeps DEF Closed
<1>6. VerdictStands
  BY <1>1, <1>2 DEF VerdictStands
<1> QED BY <1>5, <1>6

(* resolve_dispute: a recorded verdict is the one that is executed. *)
LEMMA ResolveKeeps ==
  ASSUME DisputeInv, NEW m \in Milestones, ResolveDispute(m)
  PROVE  DisputeInv' /\ VerdictStands
<1> DEFINE d == [dispute[m] EXCEPT !.verdict = Decided(dispute[m]), !.phase = "Resolved"]
<1>1. raiseEnded \in BOOLEAN /\ dispute \in [Milestones -> DisputeRecords]
  BY DEF DisputeInv, DisputeTypes
<1>2. /\ dispute' = [dispute EXCEPT ![m] = d]
      /\ frozen' = frozen \ {m}
      /\ UNCHANGED <<now, window>>
  BY <1>1 DEF ResolveDispute, settings
<1>3. /\ d \in DisputeRecords /\ d.phase # "None"
      /\ dispute[m].verdict # "None" => d.verdict = dispute[m].verdict
  <2>1. dispute[m] \in DisputeRecords
    BY <1>1
  <2>2. /\ Decided(dispute[m]) \in {"Release", "Refund"}
        /\ dispute[m].verdict # "None" => Decided(dispute[m]) = dispute[m].verdict
    BY <2>1, DecidedVerdict
  <2>3. d \in DisputeRecords /\ d.phase # "None" /\ d.verdict = Decided(dispute[m])
    BY <2>1, <2>2, ResolvedRecord, Zenon
  <2> HIDE DEF d
  <2> QED BY <2>2, <2>3
<1>4. \/ /\ released' = released \cup {m} /\ UNCHANGED raiseEnded
         /\ status' \in {"Delivered", status}
      \/ status' = "Failed" /\ raiseEnded' = TRUE /\ UNCHANGED released
  BY DEF ResolveDispute, PayTranche, ApplyProportionalRefund, progress
<1> HIDE DEF d
<1>5. DisputeInv'
  BY <1>1, <1>2, <1>3, <1>4, RecordKeeps
<1>6. VerdictStands
  BY <1>1, <1>2, <1>3 DEF VerdictStands
<1> QED BY <1>5, <1>6

(* Everything else leaves the disputes alone. *)
LEMMA OtherSteps ==
  ASSUME DisputeInv, [Next]_vars,
         ~ \E m \in Milestones :
              \/ RaiseDispute(m) \/ FinalizeDispute(m) \/ ResolveDispute(m)
              \/ \E a \in Arbitrators, forFarmer \in BOOLEAN : CastDisputeVote(a, m, forFarmer)
  PROVE  DisputeInv' /\ VerdictStands
<1> USE DEF settings, progress, maps, disputes, money
<1>1. raiseEnded \in BOOLEAN /\ now \in Nat /\ window \in Nat
  BY DEF DisputeInv, DisputeTypes
<1> DEFINE Quiet == /\ UNCHANGED <<dispute, frozen>> /\ released \subseteq released'
                    /\ now' \in Nat /\ window' \in Nat /\ raiseEnded' \in BOOLEAN
                    /\ raiseEnded => raiseEnded'
                    /\ raiseEnded /\ status \notin {"Funded", "Active"}
                         => status' \notin {"Funded", "Active"}
<1>2. ASSUME NEW i \in Investors, NEW n \in Amounts, Invest(i, n) PROVE Quiet
  BY <1>1, <1>2 DEF Invest
<1>3. ASSUME NEW n \in Amounts, SetMaxFunding(n) \/ ReceiveRevenue(n) \/ DistributeRevenue(n)
      PROVE  Quiet
  BY <1>1, <1>3 DEF SetMaxFunding, ReceiveRevenue, DistributeRevenue
<1>4. ASSUME NEW i \in Investors, Refund(i) PROVE Quiet
  BY <1>1, <1>4 DEF Refund
<1>5. CASE Approve \/ Pause \/ Unpause
  <2>1. Quiet
    BY <1>1, <1>5 DEF Approve, Pause, Unpause
  <2> QED BY <2>1, QuietKeeps DEF VerdictStands
<1>6. CASE EarlyClose \/ MarkFailed
  <2>1. Quiet
    BY <1>1, <1>6 DEF EarlyClose, MarkFailed, ApplyProportionalRefund
  <2> QED BY <2>1, QuietKeeps DEF VerdictStands
<1>7. ASSUME NEW p \in PartialBps, PartialReleaseMilestone(p) PROVE Quiet
  BY <1>1, <1>7 DEF PartialReleaseMilestone
<1>8. ASSUME NEW w \in Windows, SetDisputeVotingWindow(w) PROVE Quiet
  <2>1. w \in Nat
    BY CampaignAssumption
  <2> QED BY <1>1, <1>8, <2>1 DEF SetDisputeVotingWindow
<1>9. ASSUME NEW r \in Rosters, SetArbitratorPool(r) PROVE Quiet
  BY <1>1, <1>9 DEF SetArbitratorPool
<1>10. ASSUME NEW a \in Arbitrators, UpdateArbitrator(a) PROVE Quiet
  BY <1>1, <1>10 DEF UpdateArbitrator
<1>11. ASSUME NEW m \in Milestones, ReleaseMilestone(m) PROVE Quiet
  <2>1. status' \in {"Delivered", "Active"} /\ released' = released \cup {m} /\ status = "Active"
    BY <1>11 DEF ReleaseMilestone, PayTranche
  <2> QED BY <1>1, <1>11, <2>1 DEF ReleaseMilestone
<1>12. CASE Tick \/ UNCHANGED vars
  <2>1. Quiet
    BY <1>1, <1>12 DEF Tick, vars
  <2> QED BY <2>1, QuietKeeps DEF VerdictStands
<1>13. ASSUME Quiet PROVE DisputeInv' /\ VerdictStands
  BY <1>13, QuietKeeps DEF VerdictStands
<1> HIDE DEF Quiet
<1> QED BY <1>2, <1>3, <1>4, <1>5, <1>6, <1>7, <1>8, <1>9, <1>10, <1>11, <1>12, <1>13 DEF Next

LEMMA NextDispute == DisputeInv /\ [Next]_vars => DisputeInv' /\ VerdictStands
BY RaiseKeeps, VoteKeeps, FinalizeKeeps, ResolveKeeps, OtherSteps

(* A verdict that cast_dispute_vote, finalize_dispute or resolve_dispute has *)
(* recorded is never changed, for any milestones, rosters and windows.       *)
THEOREM VerdictIsFinalHolds == Spec => VerdictIsFinal
<1>1. DisputeInv /\ [Next]_vars => [VerdictStands]_vars
  BY NextDispute
<1> QED BY InitDispute, NextDispute, <1>1, PTL DEF Spec, VerdictIsFinal

-----------------------------------------------------------------------------
(* Refunds.                                                                *)

RaisedNatural == totalRaised \in Nat

MoneyTypes ==
    /\ investments \in [Investors -> Nat] /\ refundable \in [Investors -> Nat]
    /\ paidIn \in [Investors -> Nat] /\ paidBack \in [Investors -> Nat]
    /\ totalReleased \in Nat

\* What an investor was paid back, still has at stake and can still claim was
\* once paid in.  The flag counts: a refunded investor who invests again before
\* the raise ends has a share that cannot be claimed.
Backed(i) == paidBack[i] + investments[i]
               + (IF i \in refunded THEN 0 ELSE refundable[i]) <= paidIn[i]

RefundInv == MoneyTypes /\ \A i \in Investors : Backed(i)

LEMMA InitRefund == Init => RefundInv
BY DEF Init, RefundInv, MoneyTypes, Backed

LEMMA RefundInvImplies == RefundInv => RefundsBounded
<1> SUFFICES ASSUME RefundInv, NEW i \in Investors PROVE paidBack[i] + Claim(i) <= paidIn[i]
  BY DEF RefundsBounded
<1>1. Backed(i) /\ {investments[i], refundable[i], paidIn[i], paidBack[i]} \subseteq Nat
  BY DEF RefundInv, MoneyTypes
<1> QED BY <1>1 DEF Backed, Claim

(* Rounding down keeps a share between nothing and the whole. *)
LEMMA ShareBound ==
  ASSUME NEW x \in Nat, NEW t \in Nat \ {0}, NEW y \in 0..t
  PROVE  (x * y) \div t \in 0..x
<1> DEFINE n == x * y
           q == n \div t
           r == n % t
<1>1. n \in Nat /\ n <= x * t
  OBVIOUS
<1>2. q \in Int /\ r \in 0..(t - 1) /\ n = t * q + r
  BY <1>1
<1> HIDE DEF n, q, r
<1>3. q >= 0
  <2>1. SUFFICES ASSUME q <= -1 PROVE FALSE
    BY <1>2
  <2>2. t * q <= -t
    BY <1>2, <2>1
  <2> QED BY <1>1, <1>2, <2>2
<1>4. q <= x
  <2>1. SUFFICES ASSUME q >= x + 1 PROVE FALSE
    BY <1>2
  <2>2. t * q >= t * (x + 1)
    BY <1>2, <2>1
  <2>3. t * (x + 1) = x * t + t
    OBVIOUS
  <2> QED BY <1>1, <1>2, <2>2, <2>3
<1>5. q \in 0..x
  BY <1>2, <1>3, <1>4
<1> QED BY <1>5 DEF q, n

(* A share before the residue is handed out. *)
LEMMA AmountBound ==
  ASSUME RaisedNatural, NEW keep \in Nat, NEW i \in Investors,
         investments \in [Investors -> Nat]
  PROVE  RefundableAmount(i, keep) \in 0..investments[i]
<1>1. investments[i] \in Nat
  OBVIOUS
<1>2. CASE totalRaised = 0 \/ totalRaised < keep
  BY <1>1, <1>2 DEF RefundableAmount
<1>3. CASE totalRaised # 0 /\ ~(totalRaised < keep)
  <2>1. totalRaised \in Nat \ {0} /\ totalRaised - keep \in 0..totalRaised
    BY <1>3 DEF RaisedNatural
  <2>2. (investments[i] * (totalRaised - keep)) \div totalRaised \in 0..investments[i]
    BY <1>1, <2>1, ShareBound
  <2> QED BY <1>3, <2>2 DEF RefundableAmount
<1> QED BY <1>2, <1>3

(* apply_proportional_refund makes nobody's share exceed the stake. *)
LEMMA SplitBound ==
  ASSUME RaisedNatural, NEW keep \in Nat, NEW i \in Investors,
         investments \in [Investors -> Nat]
  PROVE  Split(keep)[i] \in 0..investments[i]
<1>1. investments[i] \in Nat
  OBVIOUS
<1>2. RefundableAmount(i, keep) \in 0..investments[i]
  BY AmountBound
<1>3. i \in Short(keep) => RefundableAmount(i, keep) < investments[i]
  BY DEF Short
<1>4. \/ Split(keep)[i] = RefundableAmount(i, keep)
      \/ Split(keep)[i] = RefundableAmount(i, keep) + 1 /\ i \in Short(keep)
  <2>1. RefundableAmount(i, keep) \in Int
    BY <1>1, <1>2
  <2> QED BY <2>1 DEF Split
<1> QED BY <1>1, <1>2, <1>3, <1>4

(* early_close, mark_failed and a lost dispute: stakes become claims. *)
LEMMA SplitKeeps ==
  ASSUME RefundInv, RaisedNatural, NEW keep \in Nat, ApplyProportionalRefund(keep),
         UNCHANGED <<paidIn, paidBack, totalReleased>>
  PROVE  RefundInv'
<1>1. /\ refundable' = Split(keep) /\ UNCHANGED refunded
      /\ investments' = [i \in Investors |-> investments[i] - Split(keep)[i]]
  BY DEF ApplyProportionalRefund
<1>2. MoneyTypes
  BY DEF RefundInv
<1>3. ASSUME NEW i \in Investors
      PROVE  /\ investments[i] \in Nat /\ Split(keep)[i] \in 0..investments[i]
             /\ investments'[i] = investments[i] - Split(keep)[i]
             /\ refundable'[i] = Split(keep)[i]
  BY <1>1, <1>2, SplitBound DEF MoneyTypes
<1>4. MoneyTypes'
  <2>1. DOMAIN refundable' = Investors /\ refundable' = [i \in Investors |-> refundable'[i]]
    BY <1>1 DEF Split
  <2>2. \A i \in Investors : refundable'[i] \in Nat /\ investments'[i] \in Nat
    BY <1>3
  <2>3. refundable' \in [Investors -> Nat]
    BY <2>1, <2>2
  <2>4. investments' \in [Investors -> Nat]
    BY <1>1, <2>2
  <2> QED BY <1>2, <2>3, <2>4 DEF MoneyTypes, Investors
<1>5. ASSUME NEW i \in Investors PROVE Backed(i)'
  <2>1. Backed(i) /\ {refundable[i], paidIn[i], paidBack[i]} \subseteq Nat
    BY <1>2 DEF RefundInv, MoneyTypes
  <2> QED BY <1>1, <1>3, <2>1 DEF Backed
<1> QED BY <1>4, <1>5 DEF RefundInv, Investors

LEMMA InvestKeeps ==
  ASSUME RefundInv, NEW i \in Investors, NEW n \in Amounts, Invest(i, n)
  PROVE  RefundInv'
<1>1. /\ investments' = [investments EXCEPT ![i] = @ + n]
      /\ paidIn' = [paidIn EXCEPT ![i] = @ + n]
      /\ UNCHANGED <<refundable, refunded, paidBack, totalReleased>>
  BY DEF Invest, progress
<1>2. n \in Nat
  BY CampaignAssumption
<1>3. MoneyTypes'
  BY <1>1, <1>2 DEF RefundInv, MoneyTypes, Investors
<1>4. ASSUME NEW j \in Investors PROVE Backed(j)'
  <2>1. Backed(j) /\ {investments[j], refundable[j], paidIn[j], paidBack[j]} \subseteq Nat
    BY DEF RefundInv, MoneyTypes
  <2>2. \/ investments'[j] = investments[j] /\ paidIn'[j] = paidIn[j]
        \/ investments'[j] = investments[j] + n /\ paidIn'[j] = paidIn[j] + n
    BY <1>1 DEF RefundInv, MoneyTypes
  <2> QED BY <1>1, <1>2, <2>1, <2>2 DEF Backed
<1> QED BY <1>3, <1>4 DEF RefundInv, Investors

(* refund, refund_by_admin: the claim moves to what was paid back. *)
LEMMA RefundKeeps ==
  ASSUME RefundInv, NEW i \in Investors, Refund(i)
  PROVE  RefundInv'
<1>1. /\ i \notin refunded /\ refunded' = refunded \cup {i}
      /\ paidBack' = [paidBack EXCEPT ![i] = @ + Claim(i)]
      /\ UNCHANGED <<paidIn, totalReleased>>
  BY DEF Refund, Claim, progress
<1>2. \/ /\ raiseEnded /\ Claim(i) = refundable[i]
         /\ refundable' = [refundable EXCEPT ![i] = 0] /\ UNCHANGED investments
      \/ /\ ~raiseEnded /\ Claim(i) = investments[i]
         /\ investments' = [investments EXCEPT ![i] = 0] /\ UNCHANGED refundable
  BY <1>1 DEF Refund, Claim
<1>3. MoneyTypes
  BY DEF RefundInv
<1>4. Claim(i) \in Nat
  BY <1>2, <1>3 DEF MoneyTypes
<1>5. MoneyTypes'
  <2>1. paidBack' \in [Investors -> Nat]
    BY <1>1, <1>3, <1>4 DEF MoneyTypes
  <2>2. investments' \in [Investors -> Nat] /\ refundable' \in [Investors -> Nat]
    BY <1>2, <1>3 DEF MoneyTypes
  <2> QED BY <1>1, <1>3, <2>1, <2>2 DEF MoneyTypes, Investors
<1>6. ASSUME NEW j \in Investors PROVE Backed(j)'
  <2>1. Backed(j) /\ {investments[j], refundable[j], paidIn[j], paidBack[j]} \subseteq Nat
    BY <1>3 DEF RefundInv, MoneyTypes
  <2>2. CASE j = i
    <3>1. paidBack'[i] = paidBack[i] + Claim(i) /\ i \in refunded'
      BY <1>1, <1>3 DEF MoneyTypes
    <3>2. \/ Claim(i) = refundable[i] /\ investments'[i] = investments[i]
          \/ Claim(i) = investments[i] /\ investments'[i] = 0
      BY <1>2, <1>3 DEF MoneyTypes
    <3> QED BY <1>1, <2>1, <2>2, <3>1, <3>2 DEF Backed
  <2>3. CASE j # i
    <3>1. /\ paidBack'[j] = paidBack[j] /\ investments'[j] = investments[j]
          /\ refundable'[j] = refundable[j] /\ (j \in refunded' <=> j \in refunded)
      BY <1>1, <1>2, <1>3, <2>3 DEF MoneyTypes
    <3> QED BY <1>1, <2>1, <3>1 DEF Backed
  <2> QED BY <2>2, <2>3
<1> QED BY <1>5, <1>6 DEF RefundInv, Investors

(* Payments to the farmer are never negative. *)
LEMMA TrancheNatural ==
  ASSUME RaisedNatural, Milestones # {} PROVE Tranche \in Nat
<1>1. MilestoneCount \in Nat \ {0}
  BY CampaignAssumption, FS_CardinalityType, FS_EmptySet DEF MilestoneCount
<1>2. PlatformFeeBps \in 0..10000
  BY CampaignAssumption
<1>3. Bps(totalRaised, PlatformFeeBps) \in 0..totalRaised
  <2> DEFINE t == 10000
  <2>1. t \in Nat \ {0} /\ totalRaised \in Nat /\ PlatformFeeBps \in 0..t
    BY <1>2 DEF RaisedNatural
  <2>2. Bps(totalRaised, PlatformFeeBps) = (totalRaised * PlatformFeeBps) \div t
    BY DEF Bps
  <2> HIDE DEF t
  <2>3. (totalRaised * PlatformFeeBps) \div t \in 0..totalRaised
    BY <2>1, ShareBound
  <2> QED BY <2>2, <2>3
<1>4. ASSUME NEW n \in Nat, NEW c \in Nat \ {0} PROVE n \div c \in Nat
  OBVIOUS
<1>5. totalRaised - Bps(totalRaised, PlatformFeeBps) \in Nat
  BY <1>3 DEF RaisedNatural
<1> QED BY <1>1, <1>4, <1>5 DEF Tranche

LEMMA FarmerKeeps ==
  ASSUME RefundInv, NEW n \in Nat, PayFarmer(n), UNCHANGED maps
  PROVE  RefundInv'
<1>1. totalReleased' \in Nat /\ UNCHANGED <<investments, refundable, refunded, paidIn, paidBack>>
  BY DEF PayFarmer, maps, RefundInv, MoneyTypes
<1> QED BY <1>1 DEF RefundInv, MoneyTypes, Backed, Investors

LEMMA NextRefund == RefundInv /\ RaisedNatural /\ [Next]_vars => RefundInv'
<1> SUFFICES ASSUME RefundInv, RaisedNatural, [Next]_vars PROVE RefundInv'
  OBVIOUS
<1> DEFINE Untouched == UNCHANGED <<investments, refundable, refunded, paidIn, paidBack, totalReleased>>
<1>1. ASSUME Untouched PROVE RefundInv'
  BY <1>1 DEF RefundInv, MoneyTypes, Backed, Investors
<1>2. FundingTarget \in Nat /\ totalReleased \in Nat
  BY CampaignAssumption DEF RefundInv, MoneyTypes
<1>3. ASSUME NEW n \in Amounts, SetMaxFunding(n) \/ ReceiveRevenue(n) \/ DistributeRevenue(n)
      PROVE  Untouched
  BY <1>3 DEF SetMaxFunding, ReceiveRevenue, DistributeRevenue, progress, maps, money
<1>4. CASE Approve \/ Pause \/ Unpause \/ Tick \/ UNCHANGED vars
  <2>1. Untouched
    BY <1>4 DEF Approve, Pause, Unpause, Tick, vars, progress, maps, money
  <2> QED BY <1>1, <2>1
<1>5. CASE EarlyClose
  BY <1>2, <1>5, SplitKeeps DEF EarlyClose, progress, money
<1>6. CASE MarkFailed
  BY <1>2, <1>6, SplitKeeps DEF MarkFailed, progress, money
<1>7. ASSUME NEW p \in PartialBps, PartialReleaseMilestone(p) PROVE RefundInv'
  <2>1. /\ PayFarmer(Bps(totalRaised, p)) /\ UNCHANGED maps /\ Bps(totalRaised, p) > 0
    BY <1>7 DEF PartialReleaseMilestone
  <2>2. p \in Nat
    BY CampaignAssumption
  <2>3. Bps(totalRaised, p) \in Nat
    <3>1. totalRaised * p \in Nat
      BY <2>2 DEF RaisedNatural
    <3> QED BY <3>1 DEF Bps
  <2> QED BY <2>1, <2>3, FarmerKeeps
<1>8. ASSUME NEW w \in Windows, SetDisputeVotingWindow(w) PROVE Untouched
  BY <1>8 DEF SetDisputeVotingWindow, progress, maps, money
<1>9. ASSUME NEW r \in Rosters, SetArbitratorPool(r) PROVE Untouched
  BY <1>9 DEF SetArbitratorPool, progress, maps, money
<1>10. ASSUME NEW a \in Arbitrators, UpdateArbitrator(a) PROVE Untouched
  BY <1>10 DEF UpdateArbitrator, progress, maps, money
<1>11. ASSUME NEW m \in Milestones, ReleaseMilestone(m) PROVE RefundInv'
  <2>1. PayFarmer(Tranche) /\ UNCHANGED maps /\ Milestones # {}
    BY <1>11 DEF ReleaseMilestone, PayTranche
  <2> QED BY <2>1, TrancheNatural, FarmerKeeps
<1>12. ASSUME NEW m \in Milestones, ResolveDispute(m) PROVE RefundInv'
  <2>1. CASE PayTranche(m) /\ UNCHANGED maps
    <3>1. PayFarmer(Tranche) /\ Milestones # {}
      BY <1>12, <2>1 DEF PayTranche
    <3> QED BY <2>1, <3>1, TrancheNatural, FarmerKeeps
  <2>2. CASE ApplyProportionalRefund(totalReleased) /\ UNCHANGED <<progress, money>>
    BY <1>2, <2>2, SplitKeeps DEF progress, money
  <2> QED BY <1>12, <2>1, <2>2 DEF ResolveDispute
<1>13. ASSUME NEW m \in Milestones,
              \/ RaiseDispute(m) \/ FinalizeDispute(m)
              \/ \E a \in Arbitrators, forFarmer \in BOOLEAN : CastDisputeVote(a, m, forFarmer)
       PROVE  Untouched
  BY <1>13 DEF RaiseDispute, FinalizeDispute, CastDisputeVote, progress, maps, money
<1> HIDE DEF Untouched
<1> QED BY <1>1, <1>3, <1>4, <1>5, <1>6, <1>7, <1>8, <1>9, <1>10, <1>11, <1>12, <1>13,
           InvestKeeps, RefundKeeps DEF Next

-----------------------------------------------------------------------------
(* The books: the stakes add up to total_raised.                           *)

LEMMA InvestorsFinite == IsFiniteSet(Investors)
BY CampaignAssumption, FS_Interval DEF Investors

(* SumOf adds up over all investors. *)
LEMMA SumOfTotal == ASSUME NEW f PROVE SumOf(f) = Total(f, Investors)
BY DEF SumOf, Total

(* The books before and after a step. *)
LEMMA BooksThen == RaisedIsInvested' <=> Total(investments', Investors) = totalRaised'
BY DEF RaisedIsInvested, SumOf, Total, MapThenSumSet, MapThenFoldSet, Investors

(* The stakes bound total_raised from below by each of them. *)
LEMMA RaisedFacts ==
  ASSUME RaisedIsInvested, investments \in [Investors -> Nat]
  PROVE  RaisedNatural /\ \A i \in Investors : investments[i] <= totalRaised
<1>1. Total(investments, Investors) \in Nat
        /\ \A i \in Investors : investments[i] <= Total(investments, Investors)
  BY InvestorsFinite, TotalNat
<1> QED BY <1>1, SumOfTotal DEF RaisedIsInvested, RaisedNatural

(* The residue goes out one stroop at a time, so that the shares add up to *)
(* what apply_proportional_refund takes from total_raised.                 *)
LEMMA SplitSum ==
  ASSUME RaisedNatural, NEW keep \in Nat, investments \in [Investors -> Nat],
         CanSplit(keep)
  PROVE  Total(Split(keep), Investors) = RefundableTotal(keep)
<1> DEFINE ra == [i \in Investors |-> RefundableAmount(i, keep)]
           lucky == FirstOf(Short(keep), Residual(keep))
           extra == [i \in Investors |-> IF i \in lucky THEN 1 ELSE 0]
<1>1. Short(keep) \subseteq 1..InvestorCount /\ InvestorCount \in Nat
  BY CampaignAssumption DEF Short, Investors
<1>2. IsFiniteSet(Short(keep))
  BY InvestorsFinite, FS_Subset DEF Short
<1>3. Cardinality(lucky) = Residual(keep)
  BY <1>1, <1>2, FirstCount DEF CanSplit
<1>4. lucky \cap Investors = lucky
  BY <1>1 DEF FirstOf, Investors
<1>5. Total(extra, Investors) = Residual(keep)
  <2> HIDE DEF lucky
  <2> QED BY <1>3, <1>4, InvestorsFinite, TotalCount, SMTT(30)
<1>6. Total(ra, Investors) = Allocated(keep)
  BY SumOfTotal DEF Allocated
<1>7. \A i \in Investors : ra[i] \in Int /\ extra[i] \in Int
  <2>1. ASSUME NEW i \in Investors PROVE ra[i] \in Int
    <3>1. RefundableAmount(i, keep) \in 0..investments[i] /\ investments[i] \in Nat
      BY AmountBound
    <3> QED BY <3>1
  <2> QED BY <2>1
<1>8. ASSUME NEW i \in Investors PROVE Split(keep)[i] = ra[i] + extra[i]
  <2>1. i \in lucky <=> i \in Short(keep) /\ Ahead(i, keep) < Residual(keep)
    BY DEF FirstOf, Ahead
  <2> HIDE DEF lucky
  <2> QED BY <2>1 DEF Split
<1> HIDE DEF ra, extra
<1>9. Total(Split(keep), Investors) = Total(ra, Investors) + Total(extra, Investors)
  BY <1>7, <1>8, InvestorsFinite, TotalPlus
<1>10. Total(ra, Investors) \in Int
  BY <1>7, InvestorsFinite, TotalInt
<1>11. RefundableTotal(keep) \in Int
  BY DEF RefundableTotal, RaisedNatural
<1>12. Residual(keep) = RefundableTotal(keep) - Allocated(keep)
  BY DEF Residual
<1>13. ASSUME NEW a \in Int, NEW t \in Int PROVE a + (t - a) = t
  OBVIOUS
<1> QED BY <1>5, <1>6, <1>9, <1>10, <1>11, <1>12, <1>13

(* early_close, mark_failed and a lost dispute take the shares they promise *)
(* from the stakes and from total_raised alike.                             *)
LEMMA SplitBooks ==
  ASSUME RaisedIsInvested, NEW keep \in Nat, investments \in [Investors -> Nat],
         ApplyProportionalRefund(keep)
  PROVE  RaisedIsInvested'
<1>1. RaisedNatural
  BY RaisedFacts
<1>2. /\ investments' = [i \in Investors |-> investments[i] - Split(keep)[i]]
      /\ totalRaised' = totalRaised - RefundableTotal(keep) /\ CanSplit(keep)
  BY DEF ApplyProportionalRefund
<1>3. \A i \in Investors : /\ Split(keep)[i] \in Int /\ investments'[i] \in Int
                           /\ investments[i] = investments'[i] + Split(keep)[i]
  <2>1. ASSUME NEW i \in Investors
        PROVE  Split(keep)[i] \in 0..investments[i] /\ investments[i] \in Nat
    BY <1>1, SplitBound
  <2> QED BY <1>2, <2>1
<1>4. Total(investments, Investors)
        = Total(investments', Investors) + Total(Split(keep), Investors)
  BY <1>3, InvestorsFinite, TotalPlus
<1>5. Total(investments', Investors) \in Int /\ Total(Split(keep), Investors) \in Int
  BY <1>3, InvestorsFinite, TotalInt
<1>6. Total(Split(keep), Investors) = RefundableTotal(keep)
  BY <1>1, <1>2, SplitSum
<1>7. totalRaised = Total(investments, Investors)
  BY SumOfTotal DEF RaisedIsInvested
<1>8. ASSUME NEW a \in Int, NEW b \in Int PROVE (a + b) - b = a
  OBVIOUS
<1>9. totalRaised' = Total(investments', Investors)
  BY <1>2, <1>4, <1>5, <1>6, <1>7, <1>8
<1> QED BY <1>9, BooksThen

(* A stake and total_raised change by the same amount. *)
LEMMA StakeBooks ==
  ASSUME RaisedIsInvested, investments \in [Investors -> Nat], NEW i \in Investors,
         NEW n \in Int, investments' = [investments EXCEPT ![i] = @ + n],
         totalRaised' = totalRaised + n
  PROVE  RaisedIsInvested'
<1>1. \A j \in Investors : /\ investments[j] \in Int /\ investments'[j] \in Int
                           /\ j # i => investments'[j] = investments[j]
  OBVIOUS
<1>2. Total(investments', Investors)
        = Total(investments, Investors) - investments[i] + investments'[i]
  <2> DEFINE f == investments
             g == investments'
  <2>1. \A j \in Investors : f[j] \in Int /\ g[j] \in Int /\ (j # i => g[j] = f[j])
    BY <1>1
  <2> HIDE DEF f, g
  <2>2. Total(g, Investors) = Total(f, Investors) - f[i] + g[i]
    BY <2>1, InvestorsFinite, TotalExcept
  <2> QED BY <2>2 DEF f, g
<1>3. investments'[i] = investments[i] + n /\ investments[i] \in Int
  OBVIOUS
<1>4. Total(investments, Investors) \in Int
  BY <1>1, InvestorsFinite, TotalInt
<1>5. ASSUME NEW t \in Int, NEW x \in Int PROVE t - x + (x + n) = t + n
  OBVIOUS
<1>6. Total(investments', Investors) = Total(investments, Investors) + n
  BY <1>2, <1>3, <1>4, <1>5
<1>7. totalRaised = Total(investments, Investors)
  BY SumOfTotal DEF RaisedIsInvested
<1> QED BY <1>6, <1>7, BooksThen

LEMMA InitBooks == Init => RaisedIsInvested
<1> SUFFICES ASSUME Init PROVE Total(investments, Investors) = totalRaised
  BY SumOfTotal DEF RaisedIsInvested
<1>1. totalRaised = 0 /\ \A i \in Investors : investments[i] = 0
  BY DEF Init
<1> QED BY <1>1, InvestorsFinite, TotalZero

LEMMA NextBooks == RefundInv /\ RaisedIsInvested /\ [Next]_vars => RaisedIsInvested'
<1> SUFFICES ASSUME RefundInv, RaisedIsInvested, [Next]_vars PROVE RaisedIsInvested'
  OBVIOUS
<1> DEFINE Untouched == UNCHANGED <<investments, totalRaised>>
<1>1. ASSUME Untouched PROVE RaisedIsInvested'
  <2>1. totalRaised = Total(investments, Investors)
    BY SumOfTotal DEF RaisedIsInvested
  <2> QED BY <1>1, <2>1, BooksThen
<1>2. /\ FundingTarget \in Nat /\ totalReleased \in Nat
      /\ investments \in [Investors -> Nat] /\ RaisedNatural
  BY CampaignAssumption, RaisedFacts DEF RefundInv, MoneyTypes
<1>3. ASSUME NEW n \in Amounts, SetMaxFunding(n) \/ ReceiveRevenue(n) \/ DistributeRevenue(n)
      PROVE  Untouched
  BY <1>3 DEF SetMaxFunding, ReceiveRevenue, DistributeRevenue, maps
<1>4. CASE Approve \/ Pause \/ Unpause \/ Tick \/ UNCHANGED vars
  <2>1. Untouched
    BY <1>4 DEF Approve, Pause, Unpause, Tick, vars, maps
  <2> QED BY <1>1, <2>1
<1>5. CASE EarlyClose
  BY <1>2, <1>5, SplitBooks DEF EarlyClose
<1>6. CASE MarkFailed
  BY <1>2, <1>6, SplitBooks DEF MarkFailed
<1>7. ASSUME NEW p \in PartialBps, PartialReleaseMilestone(p) PROVE Untouched
  BY <1>7 DEF PartialReleaseMilestone, maps
<1>8. ASSUME NEW w \in Windows, SetDisputeVotingWindow(w) PROVE Untouched
  BY <1>8 DEF SetDisputeVotingWindow, maps
<1>9. ASSUME NEW r \in Rosters, SetArbitratorPool(r) PROVE Untouched
  BY <1>9 DEF SetArbitratorPool, maps
<1>10. ASSUME NEW a \in Arbitrators, UpdateArbitrator(a) PROVE Untouched
  BY <1>10 DEF UpdateArbitrator, maps
<1>11. ASSUME NEW m \in Milestones, ReleaseMilestone(m) PROVE Untouched
  BY <1>11 DEF ReleaseMilestone, maps
<1>12. ASSUME NEW m \in Milestones, ResolveDispute(m) PROVE RaisedIsInvested'
  <2>1. CASE Untouched
    BY <1>1, <2>1
  <2>2. CASE ApplyProportionalRefund(totalReleased)
    BY <1>2, <2>2, SplitBooks
  <2> QED BY <1>12, <2>1, <2>2 DEF ResolveDispute, maps
<1>13. ASSUME NEW m \in Milestones,
              \/ RaiseDispute(m) \/ FinalizeDispute(m)
              \/ \E a \in Arbitrators, forFarmer \in BOOLEAN : CastDisputeVote(a, m, forFarmer)
       PROVE  Untouched
  BY <1>13 DEF RaiseDispute, FinalizeDispute, CastDisputeVote, maps
<1>14. ASSUME NEW i \in Investors, NEW n \in Amounts, Invest(i, n) PROVE RaisedIsInvested'
  <2>1. n \in Int /\ investments' = [investments EXCEPT ![i] = @ + n]
          /\ totalRaised' = totalRaised + n
    <3>1. n \in Int
      BY <1>14, CampaignAssumption
    <3> QED BY <1>14, <3>1, SMTT(30) DEF Invest
  <2> QED BY <1>2, <2>1, StakeBooks
<1>15. ASSUME NEW i \in Investors, Refund(i) PROVE RaisedIsInvested'
  <2>1. CASE raiseEnded
    BY <1>1, <1>15, <2>1 DEF Refund
  <2>2. CASE ~raiseEnded
    <3>1. /\ investments' = [investments EXCEPT ![i] = 0]
          /\ totalRaised' = totalRaised - investments[i]
      BY <1>15, <2>2 DEF Refund, Claim
    <3> DEFINE n == -investments[i]
    <3>2. n \in Int /\ investments[i] + n = 0 /\ totalRaised - investments[i] = totalRaised + n
      BY <1>2 DEF RaisedNatural
    <3>3. investments' = [investments EXCEPT ![i] = @ + n] /\ totalRaised' = totalRaised + n
      BY <3>1, <3>2
    <3> HIDE DEF n
    <3> QED BY <1>2, <3>2, <3>3, StakeBooks
  <2> QED BY <2>1, <2>2
<1> HIDE DEF Untouched
<1> QED BY <1>1, <1>3, <1>4, <1>5, <1>6, <1>7, <1>8, <1>9, <1>10, <1>11, <1>12, <1>13,
           <1>14, <1>15 DEF Next

BooksInv == RefundInv /\ RaisedIsInvested

(* The two invariants support each other: the bound on a refund needs a     *)
(* total_raised that is not negative, the books need stakes that are not.   *)
LEMMA BooksInvariant == Spec => []BooksInv
<1>1. Init => BooksInv
  BY InitRefund, InitBooks DEF BooksInv
<1>2. BooksInv => RaisedNatural
  BY RaisedFacts DEF BooksInv, RefundInv, MoneyTypes
<1>3. BooksInv /\ [Next]_vars => BooksInv'
  BY <1>2, NextRefund, NextBooks DEF BooksInv
<1> QED BY <1>1, <1>3, PTL DEF Spec

(* The stakes in the Investments map add up to total_raised, whatever splits *)
(* and refunds have happened, for any number of investors and any amounts.   *)
THEOREM RaisedIsInvestedHolds == Spec => []RaisedIsInvested
<1>1. BooksInv => RaisedIsInvested
  BY DEF BooksInv
<1> QED BY <1>1, BooksInvariant, PTL

(* Nobody is refunded more than was paid in, for any number of investors,    *)
(* amounts, milestones and disputes.                                         *)
THEOREM RefundsBoundedHolds == Spec => []RefundsBounded
<1>1. BooksInv => RefundsBounded
  BY RefundInvImplies DEF BooksInv
<1> QED BY <1>1, BooksInvariant, PTL

-----------------------------------------------------------------------------
(* early_close, mark_failed and a lost dispute never revert on the split.  *)

(* What rounding down loses of a share is less than one stroop, and nothing *)
(* when the share is the whole stake.                                       *)
LEMMA FloorLoss ==
  ASSUME NEW x \in Nat, NEW t \in Nat \ {0}, NEW y \in 0..t,
         NEW q \in 0..x, q = (x * y) \div t
  PROVE  t * q <= x * y /\ x * y <= t * q + (IF q < x THEN t ELSE 0)
<1> DEFINE n == x * y
           r == n % t
<1>1. n \in Nat /\ n <= t * x
  OBVIOUS
<1>2. n \div t \in Int /\ r \in 0..(t - 1) /\ n = t * (n \div t) + r
  BY <1>1
<1>3. q = n \div t
  OBVIOUS
<1> HIDE DEF n, r
<1>4. n = t * q + r /\ t * q \in Int
  <2>1. n = t * q + r
    BY <1>2, <1>3, Zenon
  <2> QED BY <2>1
<1>5. q < x \/ q = x
  OBVIOUS
<1>6. t * q <= n /\ n <= t * q + t
  BY <1>2, <1>4
<1>7. q = x => n <= t * q
  BY <1>1
<1>8. n <= t * q + (IF q < x THEN t ELSE 0)
  BY <1>4, <1>5, <1>6, <1>7
<1> QED BY <1>6, <1>8 DEF n

(* The factor common to both sides of a comparison. *)
LEMMA Cancel ==
  ASSUME NEW t \in Nat \ {0}, NEW a \in Int, NEW b \in Int, t * a <= t * b
  PROVE  a <= b
<1> SUFFICES ASSUME b + 1 <= a PROVE FALSE
  OBVIOUS
<1>1. t * (b + 1) <= t * a
  OBVIOUS
<1>2. t * (b + 1) = t * b + t /\ t * a \in Int /\ t * b \in Int
  OBVIOUS
<1> QED BY <1>1, <1>2

(* Whatever is retained, the residue is not negative and there are enough   *)
(* investors to hand it out to.                                             *)
LEMMA SplitPossible ==
  ASSUME RaisedIsInvested, NEW keep \in Nat, investments \in [Investors -> Nat]
  PROVE  CanSplit(keep)
<1> DEFINE ra == [i \in Investors |-> RefundableAmount(i, keep)]
           alloc == Total(ra, Investors)
           T == totalRaised
<1>1. RaisedNatural /\ \A i \in Investors : investments[i] <= totalRaised
  BY RaisedFacts
<1>2. ASSUME NEW i \in Investors
      PROVE  investments[i] \in Nat /\ ra[i] \in 0..investments[i] /\ ra[i] \in Int
  <2>1. RefundableAmount(i, keep) \in 0..investments[i] /\ investments[i] \in Nat
    BY <1>1, AmountBound
  <2> QED BY <2>1
<1>3. alloc \in Int
  <2>1. \A i \in Investors : ra[i] \in Int
    BY <1>2
  <2> HIDE DEF ra
  <2> QED BY <2>1, InvestorsFinite, TotalInt
<1>4. Residual(keep) = RefundableTotal(keep) - alloc
  BY SumOfTotal DEF Residual, Allocated
<1>5. IsFiniteSet(Short(keep)) /\ Cardinality(Short(keep)) \in Nat
  BY InvestorsFinite, FS_Subset, FS_CardinalityType DEF Short
<1>6. T = Total(investments, Investors) /\ T \in Nat
  BY <1>1, SumOfTotal DEF RaisedIsInvested, RaisedNatural
<1>7. CASE T < keep \/ T = 0
  <2>1. RefundableTotal(keep) = T
    BY <1>6, <1>7 DEF RefundableTotal
  <2>2. ASSUME NEW i \in Investors PROVE ra[i] = investments[i]
    BY <1>1, <1>2, <1>6, <1>7 DEF RefundableAmount
  <2>3. alloc = T
    <3> HIDE DEF ra
    <3> QED BY <1>2, <1>6, <2>2, InvestorsFinite, TotalSame
  <2> HIDE DEF alloc, T
  <2>4. Residual(keep) = 0
    BY <1>4, <1>6, <2>1, <2>3
  <2> QED BY <1>5, <2>4 DEF CanSplit
<1>8. CASE ~(T < keep) /\ T # 0
  <2> DEFINE R == T - keep
             sh == [i \in Investors |-> IF i \in Short(keep) THEN 1 ELSE 0]
             due == [i \in Investors |-> R * investments[i]]
             low == [i \in Investors |-> T * ra[i]]
             gap == [i \in Investors |-> T * sh[i]]
             up == [i \in Investors |-> low[i] + gap[i]]
             c == Cardinality(Short(keep))
  <2>1. R \in 0..T /\ T \in Nat \ {0} /\ R \in Int /\ T \in Int
    BY <1>6, <1>8
  <2>2. RefundableTotal(keep) = R
    BY <1>8 DEF RefundableTotal
  <2>3. ASSUME NEW i \in Investors
        PROVE  /\ due[i] \in Int /\ low[i] \in Int /\ gap[i] \in Int /\ up[i] \in Int
               /\ sh[i] \in Int
               /\ low[i] <= due[i] /\ due[i] <= up[i]
    <3>1. ra[i] = (investments[i] * R) \div T
      BY <1>8 DEF RefundableAmount
    <3>2. i \in Short(keep) <=> ra[i] < investments[i]
      BY DEF Short
    <3>3. sh[i] = IF ra[i] < investments[i] THEN 1 ELSE 0
      BY <3>2
    <3> HIDE DEF R, ra, sh, T
    <3>4. /\ T * ra[i] <= investments[i] * R
          /\ investments[i] * R <= T * ra[i] + (IF ra[i] < investments[i] THEN T ELSE 0)
      BY <1>2, <2>1, <3>1, FloorLoss
    <3>5. T * sh[i] = (IF ra[i] < investments[i] THEN T ELSE 0) /\ sh[i] \in Int
      BY <2>1, <3>3
    <3>6. investments[i] * R = R * investments[i] /\ R * investments[i] \in Int /\ T * ra[i] \in Int
      BY <1>2, <2>1
    <3>7. due[i] = R * investments[i] /\ low[i] = T * ra[i] /\ gap[i] = T * sh[i]
            /\ up[i] = low[i] + gap[i]
      OBVIOUS
    <3> HIDE DEF due, low, gap, up
    <3>8. low[i] \in Int /\ due[i] \in Int /\ gap[i] \in Int /\ up[i] \in Int
      BY <2>1, <3>5, <3>6, <3>7
    <3> QED BY <3>4, <3>5, <3>6, <3>7, <3>8
  <2>4. Total(sh, Investors) = c
    <3>1. Short(keep) \cap Investors = Short(keep)
      BY DEF Short
    <3> QED BY <3>1, InvestorsFinite, TotalCount
  <2>5. \A i \in Investors : /\ due[i] = R * investments[i] /\ low[i] = T * ra[i]
                             /\ gap[i] = T * sh[i] /\ up[i] = low[i] + gap[i]
    OBVIOUS
  <2> HIDE DEF R, ra, sh, due, low, gap, up, T
  <2>6. Total(due, Investors) = R * T
    <3>1. \A i \in Investors : investments[i] \in Int /\ due[i] = R * investments[i]
      BY <1>2, <2>5
    <3>2. Total(due, Investors) = R * Total(investments, Investors)
      BY <2>1, <3>1, InvestorsFinite, TotalScale
    <3> QED BY <1>6, <3>2
  <2>7. Total(low, Investors) = T * alloc
    BY <1>2, <2>1, <2>5, InvestorsFinite, TotalScale
  <2>8. Total(gap, Investors) = T * c
    BY <2>1, <2>3, <2>4, <2>5, InvestorsFinite, TotalScale
  <2>9. Total(up, Investors) = T * alloc + T * c
    <3>1. Total(up, Investors) = Total(low, Investors) + Total(gap, Investors)
      BY <2>3, <2>5, InvestorsFinite, TotalPlus
    <3> QED BY <2>7, <2>8, <3>1
  <2>10. Total(low, Investors) <= Total(due, Investors)
           /\ Total(due, Investors) <= Total(up, Investors)
    BY <2>3, InvestorsFinite, TotalMono
  <2> HIDE DEF alloc, c
  <2>11. c \in Int
    BY <1>5 DEF c
  <2>12. R * T = T * R /\ T * alloc + T * c = T * (alloc + c)
    BY <1>3, <2>1, <2>11
  <2>13. alloc <= R
    BY <1>3, <2>1, <2>6, <2>7, <2>10, <2>12, Cancel
  <2>14. R <= alloc + c
    <3>1. T * R <= T * (alloc + c)
      BY <2>6, <2>9, <2>10, <2>12
    <3>2. alloc + c \in Int
      BY <1>3, <2>11
    <3> QED BY <2>1, <3>1, <3>2, Cancel
  <2>15. R - alloc \in 0..c
    BY <1>3, <2>1, <2>11, <2>13, <2>14
  <2> QED BY <1>4, <2>2, <2>15 DEF CanSplit, c
<1> QED BY <1>7, <1>8

(* Closing the raise, failing the campaign and losing a dispute never fail   *)
(* on the arithmetic of the proportional split, for any stakes.              *)
THEOREM ClosingSucceedsHolds == Spec => []ClosingSucceeds
<1>1. BooksInv => ClosingSucceeds
  <2> SUFFICES ASSUME BooksInv PROVE ClosingSucceeds
    OBVIOUS
  <2>1. /\ FundingTarget \in Nat /\ totalReleased \in Nat
        /\ investments \in [Investors -> Nat] /\ RaisedIsInvested
    BY CampaignAssumption DEF BooksInv, RefundInv, MoneyTypes
  <2> QED BY <2>1, SplitPossible DEF ClosingSucceeds
<1> QED BY <1>1, BooksInvariant, PTL

-----------------------------------------------------------------------------
(* Types.                                                                  *)

\* What neither the disputes nor the books say of the types.
PlainTypes ==
    /\ maxFunding \in Nat /\ arbitrator \in Arbitrators /\ roster \in Seq(Arbitrators)
    /\ status \in Statuses
    /\ partialTotalBps \in Nat /\ milestonesReleased \in Nat
    /\ refunded \subseteq Investors /\ released \subseteq Milestones
    /\ frozen \subseteq Milestones /\ distributed \in BOOLEAN
    /\ breaches \subseteq {"reopened", "overpaid", "unfunded"}

\* The contract's own USDC and the revenue that arrived.
CashTypes == balance \in Nat /\ revenueIn \in Nat

(* What distribute_revenue pays is an integer. *)
LEMMA RevenuePaidInt ==
  ASSUME RaisedNatural, investments \in [Investors -> Nat], NEW n \in Nat
  PROVE  RevenuePaid(n) \in Int
<1> DEFINE share == [i \in Investors |-> RevenueShare(i, n)]
<1>1. Bps(n, PlatformFeeBps) \in Int
  BY CampaignAssumption DEF Bps
<1>2. ASSUME NEW i \in Investors PROVE share[i] \in Int
  <2> DEFINE x == (n - Bps(n, PlatformFeeBps)) * investments[i]
  <2>1. x \in Int
    <3>1. investments[i] \in Int /\ n - Bps(n, PlatformFeeBps) \in Int
      BY <1>1
    <3> HIDE DEF x
    <3>2. ASSUME NEW a \in Int, NEW b \in Int PROVE a * b \in Int
      OBVIOUS
    <3> QED BY <3>1, <3>2 DEF x
  <2>2. share[i] = IF totalRaised = 0 THEN 0 ELSE x \div totalRaised
    BY DEF RevenueShare
  <2> HIDE DEF x
  <2>3. totalRaised # 0 => x \div totalRaised \in Int
    <3>1. ASSUME NEW t \in Nat \ {0} PROVE x \div t \in Int
      BY <2>1
    <3> QED BY <3>1 DEF RaisedNatural
  <2> QED BY <2>2, <2>3
<1>3. Total(share, Investors) \in Int
  <2> HIDE DEF share
  <2> QED BY <1>2, InvestorsFinite, TotalInt
<1>4. RevenuePaid(n) = Total(share, Investors) + Bps(n, PlatformFeeBps)
  BY SumOfTotal DEF RevenuePaid
<1> QED BY <1>1, <1>3, <1>4

(* A refund pays a natural amount. *)
LEMMA ClaimNatural ==
  ASSUME MoneyTypes, NEW i \in Investors PROVE Claim(i) \in Nat
BY DEF MoneyTypes, Claim

(* Settings, status, flags and counters keep their types. *)
LEMMA NextPlain == PlainTypes /\ [Next]_vars => PlainTypes'
<1> SUFFICES ASSUME PlainTypes, [Next]_vars PROVE PlainTypes'
  OBVIOUS
<1> USE DEF settings, progress, maps, disputes, PlainTypes, Investors, Breach
<1>1. ASSUME NEW i \in Investors, NEW n \in Amounts, Invest(i, n) PROVE PlainTypes'
  BY <1>1 DEF Invest, Statuses
<1>2. ASSUME NEW n \in Amounts, SetMaxFunding(n) PROVE PlainTypes'
  <2>1. n \in Nat
    BY CampaignAssumption
  <2> QED BY <1>2, <2>1 DEF SetMaxFunding
<1>3. ASSUME NEW n \in Amounts, ReceiveRevenue(n) PROVE PlainTypes'
  BY <1>3 DEF ReceiveRevenue
<1>4. ASSUME NEW n \in Amounts, DistributeRevenue(n) PROVE PlainTypes'
  BY <1>4 DEF DistributeRevenue, Statuses
<1>5. ASSUME NEW i \in Investors, Refund(i) PROVE PlainTypes'
  BY <1>5 DEF Refund
<1>6. CASE Approve
  BY <1>6 DEF Approve, Statuses
<1>7. CASE EarlyClose
  BY <1>7 DEF EarlyClose, ApplyProportionalRefund
<1>8. CASE MarkFailed
  BY <1>8 DEF MarkFailed, ApplyProportionalRefund, Statuses
<1>9. CASE Pause \/ Unpause
  BY <1>9 DEF Pause, Unpause, Statuses
<1>10. ASSUME NEW p \in PartialBps, PartialReleaseMilestone(p) PROVE PlainTypes'
  <2>1. p \in Nat
    BY CampaignAssumption
  <2> QED BY <1>10, <2>1 DEF PartialReleaseMilestone
<1>11. ASSUME NEW w \in Windows, SetDisputeVotingWindow(w) PROVE PlainTypes'
  BY <1>11 DEF SetDisputeVotingWindow
<1>12. ASSUME NEW r \in Rosters, SetArbitratorPool(r) PROVE PlainTypes'
  <2>1. r \in Seq(Arbitrators)
    BY CampaignAssumption
  <2> QED BY <1>12, <2>1 DEF SetArbitratorPool
<1>13. ASSUME NEW a \in Arbitrators, UpdateArbitrator(a) PROVE PlainTypes'
  BY <1>13 DEF UpdateArbitrator
<1>14. ASSUME NEW m \in Milestones, ReleaseMilestone(m) PROVE PlainTypes'
  <2>1. status' \in Statuses /\ milestonesReleased' \in Nat /\ released' \subseteq Milestones
    BY <1>14 DEF ReleaseMilestone, PayTranche, Statuses
  <2> QED BY <1>14, <2>1 DEF ReleaseMilestone
<1>15. ASSUME NEW m \in Milestones, ResolveDispute(m) PROVE PlainTypes'
  <2>1. CASE PayTranche(m) /\ UNCHANGED <<partialTotalBps, maps>> /\ Breach("overpaid", totalReleased' > totalRaised)
    <3>1. status' \in Statuses /\ milestonesReleased' \in Nat /\ released' \subseteq Milestones
      BY <2>1 DEF PayTranche, Statuses
    <3> QED BY <1>15, <2>1, <3>1 DEF ResolveDispute
  <2>2. CASE status' = "Failed" /\ ApplyProportionalRefund(totalReleased) /\ UNCHANGED <<progress, breaches>>
    BY <1>15, <2>2 DEF ResolveDispute, ApplyProportionalRefund, Statuses
  <2> QED BY <1>15, <2>1, <2>2 DEF ResolveDispute
<1>16. ASSUME NEW m \in Milestones, RaiseDispute(m) \/ FinalizeDispute(m) PROVE PlainTypes'
  BY <1>16 DEF RaiseDispute, FinalizeDispute
<1>17. ASSUME NEW m \in Milestones, NEW a \in Arbitrators, NEW forFarmer \in BOOLEAN,
              CastDisputeVote(a, m, forFarmer)
       PROVE  PlainTypes'
  BY <1>17 DEF CastDisputeVote
<1>18. CASE Tick \/ UNCHANGED vars
  BY <1>18 DEF Tick, vars
<1> HIDE DEF PlainTypes
<1> QED BY <1>1, <1>2, <1>3, <1>4, <1>5, <1>6, <1>7, <1>8, <1>9, <1>10, <1>11, <1>12, <1>13,
           <1>14, <1>15, <1>16, <1>17, <1>18 DEF Next

(* USDC leaves only as far as the contract holds it. *)
LEMMA NextCash == CashTypes /\ BooksInv /\ [Next]_vars => CashTypes'
<1> SUFFICES ASSUME CashTypes, BooksInv, [Next]_vars PROVE CashTypes'
  OBVIOUS
<1> USE DEF money, CashTypes
<1> DEFINE Untouched == UNCHANGED <<balance, revenueIn>>
<1>1. ASSUME Untouched PROVE CashTypes'
  BY <1>1
<1>2. RaisedNatural /\ MoneyTypes /\ investments \in [Investors -> Nat]
  BY RaisedFacts DEF BooksInv, RefundInv, MoneyTypes
<1>3. ASSUME NEW n \in Nat, PayFarmer(n) PROVE CashTypes'
  BY <1>3 DEF PayFarmer
<1>4. ASSUME NEW i \in Investors, NEW n \in Amounts, Invest(i, n) PROVE CashTypes'
  <2>1. n \in Nat
    BY CampaignAssumption
  <2> QED BY <1>4, <2>1 DEF Invest
<1>5. ASSUME NEW n \in Amounts, SetMaxFunding(n) PROVE Untouched
  BY <1>5 DEF SetMaxFunding
<1>6. ASSUME NEW n \in Amounts, ReceiveRevenue(n) PROVE CashTypes'
  <2>1. n \in Nat
    BY CampaignAssumption
  <2> QED BY <1>6, <2>1 DEF ReceiveRevenue
<1>7. ASSUME NEW n \in Amounts, DistributeRevenue(n) PROVE CashTypes'
  <2>1. RevenuePaid(n) \in Int
    BY <1>2, CampaignAssumption, RevenuePaidInt
  <2> QED BY <1>7, <2>1 DEF DistributeRevenue
<1>8. ASSUME NEW i \in Investors, Refund(i) PROVE CashTypes'
  <2>1. Claim(i) \in Nat
    BY <1>2, ClaimNatural
  <2> QED BY <1>8, <2>1 DEF Refund
<1>9. CASE Approve \/ EarlyClose \/ MarkFailed \/ Pause \/ Unpause \/ Tick \/ UNCHANGED vars
  BY <1>9 DEF Approve, EarlyClose, MarkFailed, Pause, Unpause, Tick, vars
<1>10. ASSUME NEW p \in PartialBps, PartialReleaseMilestone(p) PROVE CashTypes'
  <2>1. PayFarmer(Bps(totalRaised, p)) /\ Bps(totalRaised, p) > 0 /\ p \in Nat
    BY <1>10, CampaignAssumption DEF PartialReleaseMilestone
  <2>2. Bps(totalRaised, p) \in Nat
    <3>1. totalRaised * p \in Nat
      BY <1>2, <2>1 DEF RaisedNatural
    <3> QED BY <3>1 DEF Bps
  <2> QED BY <1>3, <2>1, <2>2
<1>11. ASSUME NEW w \in Windows, SetDisputeVotingWindow(w) PROVE Untouched
  BY <1>11 DEF SetDisputeVotingWindow
<1>12. ASSUME NEW r \in Rosters, SetArbitratorPool(r) PROVE Untouched
  BY <1>12 DEF SetArbitratorPool
<1>13. ASSUME NEW a \in Arbitrators, UpdateArbitrator(a) PROVE Untouched
  BY <1>13 DEF UpdateArbitrator
<1>14. ASSUME NEW m \in Milestones, PayTranche(m) PROVE CashTypes'
  <2>1. PayFarmer(Tranche) /\ Milestones # {}
    BY <1>14 DEF PayTranche
  <2> QED BY <1>2, <1>3, <2>1, TrancheNatural
<1>15. ASSUME NEW m \in Milestones,
              \/ RaiseDispute(m) \/ FinalizeDispute(m)
              \/ \E a \in Arbitrators, forFarmer \in BOOLEAN : CastDisputeVote(a, m, forFarmer)
       PROVE  Untouched
  BY <1>15 DEF RaiseDispute, FinalizeDispute, CastDisputeVote
<1>16. ASSUME NEW m \in Milestones, ReleaseMilestone(m) \/ ResolveDispute(m)
       PROVE  PayTranche(m) \/ Untouched
  BY <1>16 DEF ReleaseMilestone, ResolveDispute
<1> HIDE DEF CashTypes, Untouched
<1> QED BY <1>1, <1>4, <1>5, <1>6, <1>7, <1>8, <1>9, <1>10, <1>11, <1>12, <1>13, <1>14, <1>15,
           <1>16 DEF Next

\* All that has been established so far.
CampaignInv == DisputeInv /\ BooksInv /\ PlainTypes /\ CashTypes

LEMMA CampaignInvariant == Spec => []CampaignInv
<1>1. Init => PlainTypes /\ CashTypes
  <2>1. InitMaxFunding \in Nat
    BY CampaignAssumption
  <2>2. <<>> \in Seq(Arbitrators)
    OBVIOUS
  <2> SUFFICES ASSUME Init PROVE PlainTypes /\ CashTypes
    OBVIOUS
  <2>3. roster \in Seq(Arbitrators)
    BY <2>2 DEF Init
  <2>4. status \in Statuses /\ distributed \in BOOLEAN
    BY DEF Init, Statuses
  <2> QED BY <2>1, <2>3, <2>4 DEF Init, PlainTypes, CashTypes
<1>2. Init => CampaignInv
  BY <1>1, InitDispute, InitRefund, InitBooks DEF CampaignInv, BooksInv
<1>3. CampaignInv /\ [Next]_vars => CampaignInv'
  <2>1. BooksInv => RaisedNatural
    BY RaisedFacts DEF BooksInv, RefundInv, MoneyTypes
  <2> QED BY <2>1, NextDispute, NextRefund, NextBooks, NextPlain, NextCash
          DEF CampaignInv, BooksInv
<1> QED BY <1>2, <1>3, PTL DEF Spec

(* Type correctness, for every value of the constants: no amount of the      *)
(* contract becomes negative, its balance included.                          *)
THEOREM CampaignTypes == Spec => []TypeOK
<1>1. CampaignInv => TypeOK
  <2>1. BooksInv => RaisedNatural
    BY RaisedFacts DEF BooksInv, RefundInv, MoneyTypes
  <2> QED BY <2>1 DEF CampaignInv, DisputeInv, DisputeTypes, BooksInv, RefundInv, MoneyTypes,
                      RaisedNatural, PlainTypes, CashTypes, TypeOK
<1> QED BY <1>1, CampaignInvariant, PTL

-----------------------------------------------------------------------------
(* The refunds promised are held.                                          *)

\* What is owed to each investor by a closed raise.
Due == [i \in Investors |-> IF raiseEnded /\ i \notin refunded THEN refundable[i] ELSE 0]

\* Nothing has been released, and no milestone disputed, before approval.
Early == status \in {"Open", "Funded", "Paused"}
EarlyUntouched ==
    Early => totalReleased = 0 /\ \A m \in Milestones : dispute[m].phase = "None"

\* Revenue that has arrived and is not yet distributed.
Unspent == IF distributed THEN 0 ELSE revenueIn

\* Beside the refunds owed, the balance holds what the farmer has not yet been
\* paid of the raise, and the revenue.
Reserved == Owed + (totalRaised - totalReleased) + Unspent <= balance

CoverInv == breaches = {} => totalReleased <= totalRaised /\ EarlyUntouched /\ Reserved

\* A campaign fails by a split, which ends the raise.
FailedEnded == status = "Failed" => raiseEnded

(* What is owed, as a sum over all investors, before and after a step. *)
LEMMA OwedNow == Owed = Total(Due, Investors)
<1>1. [i \in Investors |-> IF raiseEnded THEN Claim(i) ELSE 0] = Due
  BY DEF Claim, Due
<1> QED BY <1>1, SumOfTotal DEF Owed

LEMMA OwedThen == Owed' = Total(Due', Investors)
<1>1. (Owed = Total(Due, Investors))'
  BY OwedNow, PTL
<1>2. Investors' = Investors
  BY DEF Investors
<1> QED BY <1>1, <1>2

(* Claims are natural numbers, and there are none before the raise ends. *)
LEMMA OwedFacts ==
  ASSUME MoneyTypes
  PROVE  Owed \in Nat /\ (~raiseEnded => Owed = 0)
<1>1. \A i \in Investors : Due[i] \in Nat /\ (~raiseEnded => Due[i] = 0)
  BY DEF Due, MoneyTypes
<1>2. Total(Due, Investors) \in Nat
  BY <1>1, InvestorsFinite, TotalNat
<1>3. ~raiseEnded => Total(Due, Investors) = 0
  BY <1>1, InvestorsFinite, TotalZero
<1> QED BY <1>2, <1>3, OwedNow

LEMMA OwedZero == MoneyTypes => (~raiseEnded => Owed = 0)
BY OwedFacts

LEMMA OwedSame ==
  ASSUME UNCHANGED <<raiseEnded, refunded, refundable>>
  PROVE  Owed' = Owed
<1>1. Due' = Due
  BY DEF Due, Investors
<1> QED BY <1>1, OwedNow, OwedThen

(* refund after the raise has ended: what is paid is no longer owed. *)
LEMMA OwedPaid ==
  ASSUME MoneyTypes, NEW i \in Investors, Refund(i), raiseEnded
  PROVE  Owed' = Owed - Claim(i)
<1>1. /\ i \notin refunded /\ refunded' = refunded \cup {i} /\ raiseEnded' = raiseEnded
      /\ refundable' = [refundable EXCEPT ![i] = 0] /\ Claim(i) = refundable[i]
  BY DEF Refund, Claim
<1> DEFINE f == Due
           g == Due'
<1>2. g = [j \in Investors |-> IF raiseEnded' /\ j \notin refunded' THEN refundable'[j] ELSE 0]
  BY DEF Due, Investors
<1>3. \A j \in Investors : f[j] \in Int /\ g[j] \in Int /\ (j # i => g[j] = f[j])
  BY <1>1, <1>2 DEF Due, MoneyTypes
<1>4. f[i] = Claim(i) /\ g[i] = 0
  BY <1>1, <1>2 DEF Due
<1> HIDE DEF f, g
<1>5. Total(g, Investors) = Total(f, Investors) - f[i] + g[i]
  BY <1>3, InvestorsFinite, TotalExcept
<1>6. Total(f, Investors) \in Int /\ f[i] \in Int
  BY <1>3, InvestorsFinite, TotalInt
<1>7. Owed = Total(f, Investors) /\ Owed' = Total(g, Investors)
  BY OwedNow, OwedThen DEF f, g
<1>8. ASSUME NEW t \in Int, NEW c \in Int PROVE t - c + 0 = t - c
  OBVIOUS
<1> QED BY <1>4, <1>5, <1>6, <1>7, <1>8

(* A split promises at most what it takes from total_raised. *)
LEMMA OwedSplit ==
  ASSUME MoneyTypes, RaisedNatural, NEW keep \in Nat, ApplyProportionalRefund(keep)
  PROVE  Owed' <= RefundableTotal(keep) /\ Owed' \in Int
<1>1. refundable' = Split(keep) /\ CanSplit(keep)
  BY DEF ApplyProportionalRefund
<1>2. Due' = [j \in Investors |-> IF raiseEnded' /\ j \notin refunded' THEN refundable'[j] ELSE 0]
  BY DEF Due, Investors
<1>3. investments \in [Investors -> Nat]
  BY DEF MoneyTypes
<1> DEFINE g == Due'
           f == Split(keep)
<1>4. ASSUME NEW j \in Investors PROVE f[j] \in Int /\ g[j] \in Int /\ g[j] <= f[j]
  <2>1. Split(keep)[j] \in 0..investments[j] /\ investments[j] \in Nat
    BY <1>3, SplitBound
  <2> QED BY <1>1, <1>2, <2>1
<1>5. Total(f, Investors) = RefundableTotal(keep)
  BY <1>1, <1>3, SplitSum
<1> HIDE DEF f, g
<1>6. Total(g, Investors) <= Total(f, Investors) /\ Total(g, Investors) \in Int
  BY <1>4, InvestorsFinite, TotalMono, TotalInt
<1> QED BY <1>5, <1>6, OwedThen DEF g

(* Steps that move no USDC, close no raise and dispute nothing early. *)
LEMMA QuietCovers ==
  ASSUME CoverInv,
         UNCHANGED <<totalRaised, totalReleased, raiseEnded, refunded, refundable, distributed,
                     revenueIn, balance>>,
         breaches' = {} => breaches = {},
         breaches' = {} /\ Early' => Early /\ UNCHANGED dispute
  PROVE  CoverInv'
<1> SUFFICES ASSUME breaches' = {} PROVE (totalReleased <= totalRaised /\ EarlyUntouched /\ Reserved)'
  BY DEF CoverInv
<1>1. breaches = {} /\ totalReleased <= totalRaised /\ EarlyUntouched /\ Reserved
  BY DEF CoverInv
<1>2. Owed' = Owed
  BY OwedSame
<1>3. Reserved'
  BY <1>1, <1>2 DEF Reserved, Unspent
<1>4. EarlyUntouched'
  BY <1>1 DEF EarlyUntouched
<1> QED BY <1>1, <1>3, <1>4

(* Payments to the farmer come out of the farmer's part. *)
LEMMA FarmerCovers ==
  ASSUME CoverInv, BooksInv, CashTypes, NEW n \in Nat, PayFarmer(n),
         UNCHANGED <<totalRaised, raiseEnded, refunded, refundable, distributed>>,
         Breach("overpaid", totalReleased' > totalRaised),
         breaches = {} => ~Early'
  PROVE  CoverInv'
<1> SUFFICES ASSUME breaches' = {} PROVE (totalReleased <= totalRaised /\ EarlyUntouched /\ Reserved)'
  BY DEF CoverInv
<1>1. breaches = {} /\ ~(totalReleased' > totalRaised)
  BY DEF Breach
<1>2. Reserved /\ ~Early'
  BY <1>1 DEF CoverInv
<1>3. MoneyTypes /\ RaisedNatural
  BY RaisedFacts DEF BooksInv, RefundInv, MoneyTypes
<1>4. Owed' = Owed /\ Owed \in Nat
  BY <1>3, OwedSame, OwedFacts
<1>5. /\ balance' = balance - n /\ totalReleased' = totalReleased + n
      /\ revenueIn' = revenueIn /\ Unspent' = Unspent /\ Unspent \in Nat
  BY DEF PayFarmer, Unspent, CashTypes
<1>6. totalReleased \in Nat /\ totalRaised \in Nat /\ balance \in Nat
  BY <1>3 DEF MoneyTypes, RaisedNatural, CashTypes
<1>7. (totalReleased <= totalRaised)'
  BY <1>1, <1>5, <1>6
<1>8. Owed' + (totalRaised' - totalReleased') + Unspent' <= balance'
  <2>1. ASSUME NEW o \in Int, NEW t \in Int, NEW r \in Int, NEW u \in Int, NEW b \in Int,
               o + (t - r) + u <= b
        PROVE  o + (t - (r + n)) + u <= b - n
    BY <2>1
  <2>2. Owed + (totalRaised - totalReleased) + Unspent <= balance
    BY <1>2 DEF Reserved
  <2>3. Owed + (totalRaised - (totalReleased + n)) + Unspent <= balance - n
    BY <1>4, <1>5, <1>6, <2>1, <2>2
  <2> QED BY <1>4, <1>5, <2>3
<1> QED BY <1>2, <1>7, <1>8 DEF EarlyUntouched, Reserved

(* mark_failed and a lost dispute: what the farmer has not had is refunded. *)
LEMMA FailureCovers ==
  ASSUME CoverInv, BooksInv, CashTypes, ApplyProportionalRefund(totalReleased),
         status' = "Failed", UNCHANGED <<totalReleased, distributed, revenueIn, balance, breaches>>
  PROVE  CoverInv'
<1> SUFFICES ASSUME breaches' = {} PROVE (totalReleased <= totalRaised /\ EarlyUntouched /\ Reserved)'
  BY DEF CoverInv
<1>1. Reserved /\ totalReleased <= totalRaised
  BY DEF CoverInv
<1>2. MoneyTypes /\ RaisedNatural
  BY RaisedFacts DEF BooksInv, RefundInv, MoneyTypes
<1>3. totalReleased \in Nat /\ totalRaised \in Nat /\ balance \in Nat
  BY <1>2 DEF MoneyTypes, RaisedNatural, CashTypes
<1>4. RefundableTotal(totalReleased) = totalRaised - totalReleased
  BY <1>1, <1>3 DEF RefundableTotal
<1>5. totalRaised' = totalReleased
  BY <1>3, <1>4 DEF ApplyProportionalRefund
<1>6. Owed' <= totalRaised - totalReleased /\ Owed' \in Int
  BY <1>2, <1>3, <1>4, OwedSplit
<1>7. Unspent' = Unspent /\ Unspent \in Nat /\ Owed \in Nat
  BY <1>2, OwedFacts DEF Unspent, CashTypes
<1>8. Owed' + (totalRaised' - totalReleased') + Unspent' <= balance'
  <2>1. ASSUME NEW o \in Nat, NEW p \in Int, NEW t \in Int, NEW r \in Int, NEW u \in Int,
               NEW b \in Int, o + (t - r) + u <= b, p <= t - r
        PROVE  p + (r - r) + u <= b
    BY <2>1
  <2>2. Owed + (totalRaised - totalReleased) + Unspent <= balance
    BY <1>1 DEF Reserved
  <2> DEFINE o == Owed
             p == Owed'
             u == Unspent
  <2> HIDE DEF o, p, u
  <2>3. o \in Nat /\ p \in Int /\ u \in Int /\ p <= totalRaised - totalReleased
          /\ o + (totalRaised - totalReleased) + u <= balance
    BY <1>6, <1>7, <2>2 DEF o, p, u
  <2>4. p + (totalReleased - totalReleased) + u <= balance
    BY <1>3, <2>1, <2>3
  <2> QED BY <1>5, <1>7, <2>4 DEF p, u
<1>9. ~Early'
  BY DEF Early
<1> QED BY <1>3, <1>5, <1>8, <1>9 DEF EarlyUntouched, Reserved

(* early_close: nothing has been released, and the target is retained. *)
LEMMA CloseCovers ==
  ASSUME CoverInv, BooksInv, CashTypes, EarlyClose
  PROVE  CoverInv'
<1> SUFFICES ASSUME breaches' = {} PROVE (totalReleased <= totalRaised /\ EarlyUntouched /\ Reserved)'
  BY DEF CoverInv
<1>1. /\ ApplyProportionalRefund(FundingTarget) /\ Early /\ breaches = {} /\ FundingTarget \in Nat
      /\ UNCHANGED <<status, totalReleased, distributed, revenueIn, balance, dispute>>
  BY CampaignAssumption DEF EarlyClose, Early, progress, money, disputes
<1>2. Reserved /\ EarlyUntouched /\ totalReleased = 0
  BY <1>1 DEF CoverInv, EarlyUntouched
<1>3. MoneyTypes /\ RaisedNatural
  BY RaisedFacts DEF BooksInv, RefundInv, MoneyTypes
<1>4. totalRaised \in Nat /\ balance \in Nat
  BY <1>3 DEF RaisedNatural, CashTypes
<1> DEFINE rt == RefundableTotal(FundingTarget)
<1>5. rt \in 0..totalRaised
  BY <1>1, <1>4 DEF RefundableTotal
<1> HIDE DEF rt
<1>6. totalRaised' = totalRaised - rt
  BY <1>1 DEF ApplyProportionalRefund, rt
<1>7. Owed' <= rt /\ Owed' \in Int
  BY <1>1, <1>3, OwedSplit DEF rt
<1>8. Unspent' = Unspent /\ Unspent \in Nat /\ Owed \in Nat
  BY <1>1, <1>3, OwedFacts DEF Unspent, CashTypes
<1>9. Owed' + (totalRaised' - totalReleased') + Unspent' <= balance'
  <2>1. ASSUME NEW o \in Nat, NEW p \in Int, NEW t \in Int, NEW r \in Int, NEW u \in Int,
               NEW b \in Int, o + (t - 0) + u <= b, p <= r
        PROVE  p + ((t - r) - 0) + u <= b
    BY <2>1
  <2>2. Owed + (totalRaised - 0) + Unspent <= balance
    BY <1>2 DEF Reserved
  <2> DEFINE o == Owed
             p == Owed'
             u == Unspent
  <2> HIDE DEF o, p, u
  <2>3. o \in Nat /\ p \in Int /\ u \in Int /\ p <= rt /\ o + (totalRaised - 0) + u <= balance
    BY <1>7, <1>8, <2>2 DEF o, p, u
  <2>4. p + ((totalRaised - rt) - 0) + u <= balance
    BY <1>4, <1>5, <2>1, <2>3
  <2> QED BY <1>1, <1>2, <1>6, <1>8, <2>4 DEF p, u
<1>10. (totalReleased <= totalRaised)'
  <2>1. totalReleased' = 0
    BY <1>1, <1>2
  <2>2. totalRaised' \in Nat
    BY <1>4, <1>5, <1>6
  <2> QED BY <2>1, <2>2
<1>11. EarlyUntouched'
  BY <1>1, <1>2 DEF EarlyUntouched, Early
<1> QED BY <1>9, <1>10, <1>11 DEF Reserved

(* invest: only before any release, and the stake stays in the contract. *)
LEMMA InvestCovers ==
  ASSUME CoverInv, BooksInv, CashTypes, NEW i \in Investors, NEW n \in Amounts, Invest(i, n)
  PROVE  CoverInv'
<1> SUFFICES ASSUME breaches' = {} PROVE (totalReleased <= totalRaised /\ EarlyUntouched /\ Reserved)'
  BY DEF CoverInv
<1>1. /\ Early /\ breaches = {} /\ totalRaised' = totalRaised + n /\ balance' = balance + n
      /\ UNCHANGED <<totalReleased, raiseEnded, refunded, refundable, distributed, revenueIn, dispute>>
  BY DEF Invest, Early, progress, disputes
<1>2. Reserved /\ EarlyUntouched /\ totalReleased = 0
  BY <1>1 DEF CoverInv, EarlyUntouched
<1>3. MoneyTypes /\ RaisedNatural /\ n \in Nat
  BY RaisedFacts, CampaignAssumption DEF BooksInv, RefundInv, MoneyTypes
<1>4. totalRaised \in Nat /\ balance \in Nat
  BY <1>3 DEF RaisedNatural, CashTypes
<1>5. Owed' = Owed /\ Owed \in Nat /\ Unspent' = Unspent /\ Unspent \in Nat
  BY <1>1, <1>3, OwedSame, OwedFacts DEF Unspent, CashTypes
<1>6. Owed' + (totalRaised' - totalReleased') + Unspent' <= balance'
  <2>1. ASSUME NEW o \in Int, NEW t \in Int, NEW r \in Int, NEW u \in Int, NEW b \in Int,
               o + (t - r) + u <= b
        PROVE  o + ((t + n) - r) + u <= b + n
    BY <1>3, <2>1
  <2>2. Owed + (totalRaised - totalReleased) + Unspent <= balance /\ totalReleased \in Int
    BY <1>2 DEF Reserved
  <2>3. Owed + ((totalRaised + n) - totalReleased) + Unspent <= balance + n
    BY <1>4, <1>5, <2>1, <2>2
  <2> QED BY <1>1, <1>5, <2>3
<1>7. (totalReleased <= totalRaised)'
  <2>1. totalReleased' = 0 /\ totalRaised' \in Nat
    BY <1>1, <1>2, <1>3, <1>4
  <2> QED BY <2>1
<1>8. EarlyUntouched'
  BY <1>1, <1>2 DEF EarlyUntouched
<1> QED BY <1>6, <1>7, <1>8 DEF Reserved

(* refund and refund_by_admin: what is paid was owed, or was still a stake  *)
(* of a raise from which nothing has been released.                         *)
LEMMA RefundCovers ==
  ASSUME CoverInv, BooksInv, CashTypes, NEW i \in Investors, Refund(i), FailedEnded
  PROVE  CoverInv'
<1> SUFFICES ASSUME breaches' = {} PROVE (totalReleased <= totalRaised /\ EarlyUntouched /\ Reserved)'
  BY DEF CoverInv
<1>1. /\ breaches = {} /\ balance' = balance - Claim(i)
      /\ UNCHANGED <<status, totalReleased, raiseEnded, distributed, revenueIn, dispute>>
  BY DEF Refund, progress, disputes
<1>2. Reserved /\ EarlyUntouched /\ totalReleased <= totalRaised
  BY <1>1 DEF CoverInv
<1>3. MoneyTypes /\ RaisedNatural /\ \A j \in Investors : investments[j] <= totalRaised
  BY RaisedFacts DEF BooksInv, RefundInv, MoneyTypes
<1>4. totalRaised \in Nat /\ balance \in Nat /\ totalReleased \in Nat /\ Claim(i) \in Nat
  BY <1>3, ClaimNatural DEF RaisedNatural, CashTypes, MoneyTypes
<1>5. Owed \in Nat /\ Unspent' = Unspent /\ Unspent \in Nat
  BY <1>1, <1>3, OwedFacts DEF Unspent, CashTypes
<1>6. Owed + (totalRaised - totalReleased) + Unspent <= balance
  BY <1>2 DEF Reserved
<1>7. EarlyUntouched'
  BY <1>1, <1>2 DEF EarlyUntouched, Early
<1> DEFINE o == Owed
           p == Owed'
           u == Unspent
           c == Claim(i)
<1> HIDE DEF o, p, u, c
<1>8. o \in Nat /\ u \in Nat /\ c \in Nat /\ o + (totalRaised - totalReleased) + u <= balance
        /\ balance' = balance - c /\ totalReleased' = totalReleased
  BY <1>1, <1>4, <1>5, <1>6 DEF o, u, c
<1>9. CASE raiseEnded
  <2>1. totalRaised' = totalRaised /\ p = o - c
    BY <1>3, <1>9, OwedPaid DEF Refund, o, p, c
  <2>2. p + (totalRaised - totalReleased) + u <= balance - c
    BY <1>4, <1>8, <2>1
  <2>3. Owed' + (totalRaised' - totalReleased') + Unspent' <= balance'
    BY <1>1, <1>5, <1>8, <2>1, <2>2 DEF p, u
  <2> QED BY <1>1, <1>2, <1>7, <2>1, <2>3 DEF Reserved
<1>10. CASE ~raiseEnded
  <2>1. Early
    BY <1>10 DEF Refund, CanRefund, Early, FailedEnded
  <2>2. totalReleased = 0
    BY <1>2, <2>1 DEF EarlyUntouched
  <2>3. /\ totalRaised' = totalRaised - c /\ c <= totalRaised
    <3>1. totalRaised' = totalRaised - Claim(i) /\ Claim(i) \in {0, investments[i]}
      BY <1>10 DEF Refund, Claim
    <3> QED BY <1>3, <1>4, <3>1 DEF c
  <2>4. ~raiseEnded' /\ MoneyTypes'
    <3>1. MoneyTypes'
      BY RefundKeeps DEF BooksInv, RefundInv
    <3> QED BY <1>1, <1>10, <3>1
  <2>5. o = 0 /\ p = 0
    <3>1. (MoneyTypes => (~raiseEnded => Owed = 0))'
      BY OwedZero, PTL
    <3> QED BY <1>3, <1>10, <2>4, <3>1, OwedZero DEF o, p
  <2>6. p + ((totalRaised - c) - totalReleased) + u <= balance - c
    BY <1>4, <1>8, <2>5
  <2>7. Owed' + (totalRaised' - totalReleased') + Unspent' <= balance'
    BY <1>1, <1>5, <1>8, <2>3, <2>6 DEF p, u
  <2>8. (totalReleased <= totalRaised)'
    BY <1>4, <1>8, <2>2, <2>3
  <2> QED BY <1>7, <2>7, <2>8 DEF Reserved
<1> QED BY <1>9, <1>10

(* Revenue comes in, and no more than came in is distributed. *)
LEMMA RevenueCovers ==
  ASSUME CoverInv, BooksInv, CashTypes, distributed \in BOOLEAN, NEW n \in Amounts,
         ReceiveRevenue(n) \/ DistributeRevenue(n)
  PROVE  CoverInv'
<1> SUFFICES ASSUME breaches' = {} PROVE (totalReleased <= totalRaised /\ EarlyUntouched /\ Reserved)'
  BY DEF CoverInv
<1>1. /\ breaches = {} /\ ~Early'
      /\ UNCHANGED <<totalRaised, totalReleased, raiseEnded, refunded, refundable>>
  BY DEF ReceiveRevenue, DistributeRevenue, Early, progress, maps, Breach
<1>2. Reserved /\ totalReleased <= totalRaised
  BY <1>1 DEF CoverInv
<1>3. MoneyTypes /\ RaisedNatural /\ n \in Nat
  BY RaisedFacts, CampaignAssumption DEF BooksInv, RefundInv, MoneyTypes
<1>4. totalRaised \in Nat /\ balance \in Nat /\ totalReleased \in Nat /\ revenueIn \in Nat
  BY <1>3 DEF RaisedNatural, CashTypes, MoneyTypes
<1>5. Owed' = Owed /\ Owed \in Nat
  BY <1>1, <1>3, OwedSame, OwedFacts
<1>6. Owed + (totalRaised - totalReleased) + Unspent <= balance
  BY <1>2 DEF Reserved
<1> DEFINE o == Owed
<1> HIDE DEF o
<1>7. o \in Nat /\ Owed' = o /\ o + (totalRaised - totalReleased) + Unspent <= balance
  BY <1>5, <1>6 DEF o
<1>8. CASE ReceiveRevenue(n)
  <2>1. balance' = balance + n /\ revenueIn' = revenueIn + n /\ distributed' = distributed
    BY <1>8 DEF ReceiveRevenue
  <2>2. o + (totalRaised - totalReleased) + Unspent' <= balance'
    <3>1. CASE distributed
      BY <1>3, <1>4, <1>7, <2>1, <3>1 DEF Unspent
    <3>2. CASE ~distributed
      BY <1>3, <1>4, <1>7, <2>1, <3>2 DEF Unspent
    <3> QED BY <3>1, <3>2
  <2>3. Reserved'
    BY <1>1, <1>7, <2>2 DEF Reserved
  <2> QED BY <1>1, <1>2, <2>3 DEF EarlyUntouched
<1>9. CASE DistributeRevenue(n)
  <2> DEFINE paid == RevenuePaid(n)
  <2>1. paid \in Int
    BY <1>3, RevenuePaidInt DEF MoneyTypes
  <2>2. /\ balance' = balance - paid /\ revenueIn' = revenueIn /\ distributed' = TRUE
        /\ ~distributed /\ ~(paid > revenueIn)
    BY <1>9 DEF DistributeRevenue, Breach
  <2> HIDE DEF paid
  <2>3. o + (totalRaised - totalReleased) + Unspent' <= balance'
    <3>1. Unspent = revenueIn /\ Unspent' = 0
      BY <2>2 DEF Unspent
    <3> QED BY <1>4, <1>7, <2>1, <2>2, <3>1
  <2>4. Reserved'
    BY <1>1, <1>7, <2>3 DEF Reserved
  <2> QED BY <1>1, <1>2, <2>4 DEF EarlyUntouched
<1> QED BY <1>8, <1>9

LEMMA NextFailed == FailedEnded /\ [Next]_vars => FailedEnded'
<1> SUFFICES ASSUME FailedEnded, [Next]_vars PROVE FailedEnded'
  OBVIOUS
<1> USE DEF FailedEnded
<1>1. ASSUME NEW i \in Investors, NEW n \in Amounts, Invest(i, n) PROVE FailedEnded'
  BY <1>1 DEF Invest
<1>2. ASSUME NEW n \in Amounts, SetMaxFunding(n) \/ ReceiveRevenue(n) \/ DistributeRevenue(n)
      PROVE  FailedEnded'
  BY <1>2 DEF SetMaxFunding, ReceiveRevenue, DistributeRevenue
<1>3. ASSUME NEW i \in Investors, Refund(i) PROVE FailedEnded'
  BY <1>3 DEF Refund
<1>4. CASE Approve \/ EarlyClose \/ MarkFailed \/ Pause \/ Unpause \/ Tick \/ UNCHANGED vars
  BY <1>4 DEF Approve, EarlyClose, MarkFailed, Pause, Unpause, Tick, vars, ApplyProportionalRefund
<1>5. ASSUME NEW p \in PartialBps, PartialReleaseMilestone(p) PROVE FailedEnded'
  BY <1>5 DEF PartialReleaseMilestone
<1>6. ASSUME NEW w \in Windows, SetDisputeVotingWindow(w) PROVE FailedEnded'
  BY <1>6 DEF SetDisputeVotingWindow
<1>7. ASSUME NEW r \in Rosters, SetArbitratorPool(r) PROVE FailedEnded'
  BY <1>7 DEF SetArbitratorPool
<1>8. ASSUME NEW a \in Arbitrators, UpdateArbitrator(a) PROVE FailedEnded'
  BY <1>8 DEF UpdateArbitrator
<1>9. ASSUME NEW m \in Milestones, ReleaseMilestone(m) \/ ResolveDispute(m) PROVE FailedEnded'
  BY <1>9 DEF ReleaseMilestone, ResolveDispute, PayTranche, ApplyProportionalRefund
<1>10. ASSUME NEW m \in Milestones,
              \/ RaiseDispute(m) \/ FinalizeDispute(m)
              \/ \E a \in Arbitrators, forFarmer \in BOOLEAN : CastDisputeVote(a, m, forFarmer)
       PROVE  FailedEnded'
  BY <1>10 DEF RaiseDispute, FinalizeDispute, CastDisputeVote
<1> HIDE DEF FailedEnded
<1> QED BY <1>1, <1>2, <1>3, <1>4, <1>5, <1>6, <1>7, <1>8, <1>9, <1>10 DEF Next

(* resolve_dispute is the one release that does not check the status: there *)
(* is no dispute to resolve before approval.                                *)
LEMMA ResolveCovers ==
  ASSUME CoverInv, BooksInv, CashTypes, NEW m \in Milestones, ResolveDispute(m)
  PROVE  CoverInv'
<1>1. CASE /\ PayTranche(m) /\ Breach("overpaid", totalReleased' > totalRaised)
           /\ UNCHANGED <<totalRaised, raiseEnded, maps>>
  <2>1. PayFarmer(Tranche) /\ Milestones # {} /\ UNCHANGED <<refunded, refundable, distributed>>
    BY <1>1 DEF PayTranche, ResolveDispute, maps
  <2>2. breaches = {} => ~Early'
    <3>1. dispute[m].phase # "None"
      BY DEF ResolveDispute
    <3>2. breaches = {} => ~Early
      BY <3>1 DEF CoverInv, EarlyUntouched
    <3> QED BY <1>1, <3>2 DEF PayTranche, Early
  <2>3. RaisedNatural
    BY RaisedFacts DEF BooksInv, RefundInv, MoneyTypes
  <2>4. Tranche \in Nat
    BY <2>1, <2>3, TrancheNatural
  <2> QED BY <1>1, <2>1, <2>2, <2>4, FarmerCovers
<1>2. CASE /\ status' = "Failed" /\ ApplyProportionalRefund(totalReleased)
           /\ UNCHANGED <<progress, money, breaches>>
  <2>1. UNCHANGED <<totalReleased, distributed, revenueIn, balance>>
    BY <1>2 DEF ResolveDispute, progress, money
  <2> QED BY <1>2, <2>1, FailureCovers
<1> QED BY <1>1, <1>2 DEF ResolveDispute

LEMMA NextCovers ==
  CoverInv /\ BooksInv /\ CashTypes /\ PlainTypes /\ FailedEnded /\ [Next]_vars => CoverInv'
<1> SUFFICES ASSUME CoverInv, BooksInv, CashTypes, PlainTypes, FailedEnded, [Next]_vars
             PROVE  CoverInv'
  OBVIOUS
<1> DEFINE Still == /\ UNCHANGED <<totalRaised, totalReleased, raiseEnded, refunded, refundable,
                                   distributed, revenueIn, balance>>
                    /\ breaches' = {} => breaches = {}
                    /\ breaches' = {} /\ Early' => Early /\ UNCHANGED dispute
<1>1. ASSUME Still PROVE CoverInv'
  BY <1>1, QuietCovers
<1>2. RaisedNatural /\ distributed \in BOOLEAN
  BY RaisedFacts DEF BooksInv, RefundInv, MoneyTypes, PlainTypes
<1> USE DEF settings, progress, maps, disputes, money
<1>3. ASSUME NEW n \in Amounts, SetMaxFunding(n) PROVE Still
  BY <1>3 DEF SetMaxFunding, Early
<1>4. CASE Approve
  <2>1. Still
    BY <1>4 DEF Approve, Early
  <2> QED BY <1>1, <2>1
<1>5. CASE Pause \/ Unpause
  <2>1. /\ UNCHANGED <<totalRaised, totalReleased, raiseEnded, refunded, refundable,
                       distributed, revenueIn, balance, dispute>>
        /\ Breach("reopened", status \notin {"Open", "Funded", "Paused"})
    BY <1>5 DEF Pause, Unpause
  <2>2. breaches' = {} => breaches = {} /\ Early
    BY <2>1 DEF Breach, Early
  <2> QED BY <1>1, <2>1, <2>2
<1>6. CASE MarkFailed
  BY <1>6, FailureCovers DEF MarkFailed
<1>7. ASSUME NEW p \in PartialBps, PartialReleaseMilestone(p) PROVE CoverInv'
  <2>1. /\ PayFarmer(Bps(totalRaised, p)) /\ Bps(totalRaised, p) > 0 /\ ~Early'
        /\ UNCHANGED <<totalRaised, raiseEnded, refunded, refundable, distributed>>
        /\ Breach("overpaid", totalReleased' > totalRaised)
    BY <1>7 DEF PartialReleaseMilestone, Early
  <2>2. p \in Nat
    BY CampaignAssumption
  <2>3. Bps(totalRaised, p) \in Nat
    <3>1. totalRaised * p \in Nat
      BY <1>2, <2>2 DEF RaisedNatural
    <3> QED BY <3>1 DEF Bps
  <2> QED BY <2>1, <2>3, FarmerCovers
<1>8. ASSUME NEW w \in Windows, SetDisputeVotingWindow(w) PROVE Still
  BY <1>8 DEF SetDisputeVotingWindow, Early
<1>9. ASSUME NEW r \in Rosters, SetArbitratorPool(r) PROVE Still
  BY <1>9 DEF SetArbitratorPool, Early
<1>10. ASSUME NEW a \in Arbitrators, UpdateArbitrator(a) PROVE Still
  BY <1>10 DEF UpdateArbitrator, Early
<1>11. ASSUME NEW m \in Milestones, ReleaseMilestone(m) PROVE CoverInv'
  <2>1. /\ PayFarmer(Tranche) /\ Milestones # {} /\ ~Early'
        /\ UNCHANGED <<totalRaised, raiseEnded, refunded, refundable, distributed>>
        /\ Breach("overpaid", totalReleased' > totalRaised)
    BY <1>11 DEF ReleaseMilestone, PayTranche, Early
  <2> QED BY <1>2, <2>1, TrancheNatural, FarmerCovers
<1>12. ASSUME NEW m \in Milestones, RaiseDispute(m) PROVE Still
  BY <1>12 DEF RaiseDispute, Early
<1>13. ASSUME NEW m \in Milestones,
              \/ FinalizeDispute(m)
              \/ \E a \in Arbitrators, forFarmer \in BOOLEAN : CastDisputeVote(a, m, forFarmer)
       PROVE  Still
  <2>1. /\ dispute[m].phase # "None"
        /\ UNCHANGED <<totalRaised, totalReleased, raiseEnded, refunded, refundable,
                       distributed, revenueIn, balance, breaches, status>>
    BY <1>13 DEF FinalizeDispute, CastDisputeVote
  <2>2. breaches = {} => ~Early
    BY <2>1 DEF CoverInv, EarlyUntouched
  <2> QED BY <2>1, <2>2 DEF Early
<1>14. CASE Tick \/ UNCHANGED vars
  <2>1. Still
    BY <1>14 DEF Tick, vars, Early
  <2> QED BY <1>1, <2>1
<1>15. CASE EarlyClose
  BY <1>15, CloseCovers
<1> HIDE DEF Still
<1> QED BY <1>1, <1>2, <1>3, <1>4, <1>5, <1>6, <1>7, <1>8, <1>9, <1>10, <1>11, <1>12, <1>13,
           <1>14, <1>15, InvestCovers, RefundCovers, RevenueCovers, ResolveCovers DEF Next

(* Refunds promised are refunds held, for every value of the constants: as   *)
(* long as no campaign is reopened after approval, the farmer is not paid    *)
(* more than was raised and no revenue is distributed that has not arrived,  *)
(* every unclaimed refund can be paid from the balance.                      *)
THEOREM ClaimsCoveredHolds == Spec => []ClaimsCovered
<1>1. Init => CoverInv /\ FailedEnded
  <2> SUFFICES ASSUME Init PROVE CoverInv /\ FailedEnded
    OBVIOUS
  <2>1. MoneyTypes /\ ~raiseEnded /\ totalRaised = 0 /\ totalReleased = 0 /\ balance = 0
          /\ Unspent = 0
    BY InitRefund DEF Init, RefundInv, Unspent
  <2>2. Owed = 0
    BY <2>1, OwedFacts
  <2>3. Reserved /\ totalReleased <= totalRaised
    BY <2>1, <2>2 DEF Reserved
  <2>4. EarlyUntouched /\ FailedEnded
    BY DEF Init, EarlyUntouched, FailedEnded, NoDispute
  <2> QED BY <2>3, <2>4 DEF CoverInv
<1>2. CampaignInv /\ CoverInv /\ FailedEnded /\ [Next]_vars => CoverInv' /\ FailedEnded'
  BY NextCovers, NextFailed DEF CampaignInv
<1>3. CampaignInv /\ CoverInv => ClaimsCovered
  <2> SUFFICES ASSUME CampaignInv, CoverInv, breaches = {} PROVE Owed <= balance
    BY DEF ClaimsCovered
  <2>1. MoneyTypes /\ RaisedNatural
    BY RaisedFacts DEF CampaignInv, BooksInv, RefundInv, MoneyTypes
  <2>2. Reserved /\ totalReleased <= totalRaised
    BY DEF CoverInv
  <2>3. Owed \in Nat /\ Unspent \in Nat /\ totalReleased \in Nat /\ totalRaised \in Nat
          /\ balance \in Nat
    BY <2>1, OwedFacts DEF CampaignInv, CashTypes, Unspent, MoneyTypes, RaisedNatural
  <2>4. ASSUME NEW o \in Nat, NEW t \in Nat, NEW r \in Nat, NEW u \in Nat, NEW b \in Nat,
               o + (t - r) + u <= b, r <= t
        PROVE  o <= b
    BY <2>4
  <2> QED BY <2>2, <2>3, <2>4 DEF Reserved
<1> QED BY <1>1, <1>2, <1>3, CampaignInvariant, PTL DEF Spec

-----------------------------------------------------------------------------
(* The projection of the disputes.  DisputeListener follows the events of  *)
(* one milestone's dispute into the table contract_disputes.  What a row   *)
(* may claim is stated over the set of events (Shown), so that it can only *)
(* become truer as the chain grows; the same must hold of the copies that  *)
(* polls have read and not yet saved (PollShown), and the events a poll    *)
(* has fetched must be events of the chain.                                *)

Kinds == {"raised", "vote", "verdict", "resolved"}
Phases == {"none", "open", "arbitration", "verdict", "resolved"}
Voters == PoolMembers \cup {"party"}
Events == [ledger : Nat, kind : Kinds, voter : Voters, release : BOOLEAN]
Rows == [phase : Phases, outcome : {"none", "release", "refund"},
         votes : SUBSET [voter : Voters, release : BOOLEAN],
         releaseVotes : Nat, refundVotes : Nat]
PollStates == [at : {"idle", "fetch", "next", "save"}, start : Nat, batch : Seq(Events),
               latest : Nat, entity : Rows]

ListenerTypes ==
    /\ head \in Nat /\ events \in Seq(Events) /\ row \in Rows
    /\ owner \in [Polls -> Processes] /\ cursor \in [Processes -> Nat]
    /\ poll \in [Polls -> PollStates]

Image(s) == {s[i] : i \in DOMAIN s}
Chain == Image(events)
Has(E, kind) == \E e \in E : e.kind = kind
VotesOf(E) == {[voter |-> e.voter, release |-> e.release] : e \in {f \in E : f.kind = "vote"}}
Ayes(votes) == Cardinality({v \in votes : v.release = TRUE})
Nays(votes) == Cardinality({v \in votes : v.release = FALSE})

\* Verdicts and resolutions agree, and no resolution comes without a verdict.
Consistent(E) ==
    /\ \A e, f \in E : e.kind = "verdict" /\ f.kind \in {"verdict", "resolved"}
                          => e.release = f.release
    /\ Has(E, "resolved") => Has(E, "verdict")

\* The row d shows nothing that is not in the events E.
PhaseShown(E, d) ==
    /\ d.phase = "open" => Has(E, "raised")
    /\ d.phase = "arbitration" => Has(E, "vote")
    /\ d.phase = "verdict" => Has(E, "verdict")
    /\ d.phase = "resolved" => Has(E, "resolved")
VotesShown(E, d) ==
    /\ d.votes \subseteq VotesOf(E)
    /\ d.releaseVotes <= Ayes(VotesOf(E))
    /\ d.refundVotes <= Nays(VotesOf(E))
OutcomeShown(E, d) ==
    d.outcome # "none" =>
        \E e \in E : e.kind = "verdict" /\ d.outcome = OutcomeOf(e.release)
Shown(E, d) == PhaseShown(E, d) /\ VotesShown(E, d) /\ OutcomeShown(E, d)

PollShown(E, s) ==
    /\ Shown(E, s.entity)
    /\ \A i \in 1..Len(s.batch) : s.batch[i] \in E
    /\ s.at = "save" => s.batch # <<>>

ListenerInv ==
    /\ ListenerTypes /\ Consistent(Chain) /\ Shown(Chain, row)
    /\ \A p \in Polls : PollShown(Chain, poll[p])

(* A set of votes is finite, and its tallies grow with it. *)
LEMMA VotesFinite == ASSUME NEW E, IsFiniteSet(E) PROVE IsFiniteSet(VotesOf(E))
<1> DEFINE V == {f \in E : f.kind = "vote"}
           g == [e \in V |-> [voter |-> e.voter, release |-> e.release]]
<1>1. IsFiniteSet(V)
  BY FS_Subset
<1>2. IsFiniteSet({g[e] : e \in V})
  <2>1. \A x \in {g[e] : e \in V} : \E e \in V : x = g[e]
    OBVIOUS
  <2>2. g \in Surjection(V, {g[e] : e \in V})
    BY DEF Surjection
  <2> QED BY <1>1, <2>2, FS_Surjection
<1>3. {g[e] : e \in V} = VotesOf(E)
  BY DEF VotesOf
<1> QED BY <1>2, <1>3

LEMMA TalliesGrow ==
  ASSUME NEW A, NEW B, A \subseteq B, IsFiniteSet(B)
  PROVE  /\ Ayes(A) \in Nat /\ Ayes(B) \in Nat /\ Ayes(A) <= Ayes(B)
         /\ Nays(A) \in Nat /\ Nays(B) \in Nat /\ Nays(A) <= Nays(B)
<1>1. ASSUME NEW a, NEW b, a \subseteq b, b \subseteq B
      PROVE  Cardinality(a) \in Nat /\ Cardinality(b) \in Nat /\ Cardinality(a) <= Cardinality(b)
  <2>1. IsFiniteSet(b)
    BY <1>1, FS_Subset
  <2>2. IsFiniteSet(a) /\ Cardinality(a) <= Cardinality(b)
    BY <1>1, <2>1, FS_Subset
  <2> QED BY <2>1, <2>2, FS_CardinalityType
<1>2. Ayes(A) \in Nat /\ Ayes(B) \in Nat /\ Ayes(A) <= Ayes(B)
  <2>1. /\ {v \in A : v.release = TRUE} \subseteq {v \in B : v.release = TRUE}
        /\ {v \in B : v.release = TRUE} \subseteq B
    OBVIOUS
  <2> QED BY <1>1, <2>1 DEF Ayes
<1>3. Nays(A) \in Nat /\ Nays(B) \in Nat /\ Nays(A) <= Nays(B)
  <2>1. /\ {v \in A : v.release = FALSE} \subseteq {v \in B : v.release = FALSE}
        /\ {v \in B : v.release = FALSE} \subseteq B
    OBVIOUS
  <2> QED BY <1>1, <2>1 DEF Nays
<1> QED BY <1>2, <1>3

LEMMA ShownGrows ==
  ASSUME NEW E, NEW F, E \subseteq F, IsFiniteSet(F), NEW d \in Rows, Shown(E, d)
  PROVE  Shown(F, d)
<1>1. PhaseShown(F, d) /\ OutcomeShown(F, d)
  BY DEF Shown, PhaseShown, OutcomeShown, Has
<1>2. VotesOf(E) \subseteq VotesOf(F)
  BY DEF VotesOf
<1>3. IsFiniteSet(VotesOf(F))
  BY VotesFinite
<1>5. /\ Ayes(VotesOf(E)) \in Nat /\ Ayes(VotesOf(F)) \in Nat
      /\ Ayes(VotesOf(E)) <= Ayes(VotesOf(F))
      /\ Nays(VotesOf(E)) \in Nat /\ Nays(VotesOf(F)) \in Nat
      /\ Nays(VotesOf(E)) <= Nays(VotesOf(F))
  BY <1>2, <1>3, TalliesGrow
<1>6. /\ d.votes \subseteq VotesOf(E)
      /\ d.releaseVotes \in Nat /\ d.releaseVotes <= Ayes(VotesOf(E))
      /\ d.refundVotes \in Nat /\ d.refundVotes <= Nays(VotesOf(E))
  BY DEF Shown, VotesShown, Rows
<1>7. d.votes \subseteq VotesOf(F)
  BY <1>2, <1>6
<1>8. d.releaseVotes <= Ayes(VotesOf(F)) /\ d.refundVotes <= Nays(VotesOf(F))
  BY <1>5, <1>6
<1> QED BY <1>1, <1>7, <1>8 DEF Shown, VotesShown

(* The votes of a row are those for and those against. *)
LEMMA TwoTallies ==
  ASSUME NEW A, IsFiniteSet(A), \A v \in A : v.release \in BOOLEAN
  PROVE  Cardinality(A) - Ayes(A) = Nays(A)
<1> DEFINE a == {v \in A : v.release = TRUE}
           b == {v \in A : v.release = FALSE}
<1>1. IsFiniteSet(a) /\ IsFiniteSet(b)
  BY FS_Subset
<1>2. a \cup b = A
  OBVIOUS
<1>3. a \cap b = {}
  OBVIOUS
<1>4. Cardinality(a \cup b) = Cardinality(a) + Cardinality(b) - Cardinality(a \cap b)
  BY <1>1, FS_Union
<1>5. Cardinality(a) \in Nat /\ Cardinality(b) \in Nat /\ Cardinality({}) = 0
  BY <1>1, FS_CardinalityType, FS_EmptySet
<1>6. Ayes(A) = Cardinality(a) /\ Nays(A) = Cardinality(b)
  BY DEF Ayes, Nays
<1> HIDE DEF a, b
<1>7. Cardinality(A) = Cardinality(a) + Cardinality(b)
  <2>1. Cardinality(a \cap b) = 0 /\ Cardinality(a \cup b) = Cardinality(A)
    BY <1>2, <1>3, <1>5, Zenon
  <2> QED BY <1>4, <1>5, <2>1
<1> QED BY <1>5, <1>6, <1>7

(* indexDisputeEvent and openDispute, applied to an event of the chain and  *)
(* to a row that shows nothing else, give such a row.                       *)
LEMMA IndexShown ==
  ASSUME NEW E \in SUBSET Events, IsFiniteSet(E), Consistent(E), NEW e \in E,
         NEW d \in Rows, Shown(E, d)
  PROVE  /\ IndexDisputeEvent(d, e) \in Rows
         /\ Shown(E, IndexDisputeEvent(d, e))
<1> DEFINE n == IndexDisputeEvent(d, e)
<1>1. e.kind \in Kinds /\ e.release \in BOOLEAN /\ e.voter \in Voters
  BY DEF Events
<1>2. CASE e.kind = "raised"
  <2>1. n = [phase |-> "open", outcome |-> "none", votes |-> {}, releaseVotes |-> 0,
             refundVotes |-> 0]
    BY <1>2 DEF IndexDisputeEvent, Opened, NoRow
  <2>2. IsFiniteSet(VotesOf(E))
    BY VotesFinite
  <2>3. Ayes(VotesOf(E)) \in Nat /\ Nays(VotesOf(E)) \in Nat
    BY <2>2, TalliesGrow
  <2> HIDE DEF n
  <2>4. n \in Rows
    BY <2>1 DEF Rows, Phases
  <2>5. VotesShown(E, n)
    BY <2>1, <2>3 DEF VotesShown
  <2>6. PhaseShown(E, n) /\ OutcomeShown(E, n)
    BY <1>2, <2>1 DEF PhaseShown, OutcomeShown, Has
  <2> QED BY <2>4, <2>5, <2>6 DEF Shown, n
<1>3. CASE e.kind = "vote"
  <2> DEFINE v == [voter |-> e.voter, release |-> e.release]
             votes == IF \E w \in d.votes : w.voter = e.voter THEN d.votes ELSE d.votes \cup {v}
  <2>1. n = [d EXCEPT !.votes = votes, !.releaseVotes = Ayes(votes),
                      !.refundVotes = Cardinality(votes) - Ayes(votes),
                      !.phase = IF @ = "open" THEN "arbitration" ELSE @]
    <3>1. For(votes, TRUE) = Ayes(votes)
      BY Zenon DEF For, Ayes
    <3>2. n = WithVote(d, e)
      BY <1>3 DEF IndexDisputeEvent
    <3> QED BY <3>1, <3>2 DEF WithVote
  <2>2. v \in VotesOf(E)
    BY <1>3 DEF VotesOf
  <2>3. votes \subseteq VotesOf(E)
    BY <2>2 DEF Shown, VotesShown
  <2>4. VotesOf(E) \subseteq [voter : Voters, release : BOOLEAN]
    BY DEF VotesOf, Events
  <2>5. IsFiniteSet(VotesOf(E))
    BY VotesFinite
  <2>6. IsFiniteSet(votes) /\ \A w \in votes : w.release \in BOOLEAN
    <3>1. IsFiniteSet(votes)
      BY <2>3, <2>5, FS_Subset
    <3> QED BY <2>3, <2>4, <3>1
  <2> HIDE DEF votes
  <2>7. Cardinality(votes) - Ayes(votes) = Nays(votes)
    BY <2>6, TwoTallies
  <2>9. /\ Ayes(votes) \in Nat /\ Ayes(votes) <= Ayes(VotesOf(E))
        /\ Nays(votes) \in Nat /\ Nays(votes) <= Nays(VotesOf(E))
    BY <2>3, <2>5, TalliesGrow
  <2>10. n = [phase |-> IF d.phase = "open" THEN "arbitration" ELSE d.phase,
              outcome |-> d.outcome, votes |-> votes, releaseVotes |-> Ayes(votes),
              refundVotes |-> Nays(votes)]
    BY <2>1, <2>7 DEF Rows
  <2> HIDE DEF n
  <2>11. n \in Rows
    BY <2>3, <2>4, <2>9, <2>10 DEF Rows, Phases
  <2>12. VotesShown(E, n)
    BY <2>3, <2>9, <2>10 DEF VotesShown
  <2>13. PhaseShown(E, n)
    BY <1>3, <2>10 DEF Shown, PhaseShown, Has
  <2>14. OutcomeShown(E, n)
    BY <2>10 DEF Shown, OutcomeShown
  <2> QED BY <2>11, <2>12, <2>13, <2>14 DEF Shown, n
<1>4. CASE e.kind \in {"verdict", "resolved"}
  <2>1. n = [phase |-> e.kind, outcome |-> OutcomeOf(e.release), votes |-> d.votes,
             releaseVotes |-> d.releaseVotes, refundVotes |-> d.refundVotes]
    BY <1>4 DEF IndexDisputeEvent, Rows
  <2> HIDE DEF n
  <2>2. n \in Rows
    BY <1>4, <2>1 DEF Rows, Phases, OutcomeOf
  <2>3. PhaseShown(E, n)
    BY <1>4, <2>1 DEF PhaseShown, Has
  <2>4. VotesShown(E, n)
    BY <2>1 DEF Shown, VotesShown
  <2>5. \E f \in E : f.kind = "verdict" /\ f.release = e.release
    BY <1>4 DEF Consistent, Has
  <2>6. OutcomeShown(E, n)
    BY <2>1, <2>5 DEF OutcomeShown
  <2> QED BY <2>2, <2>3, <2>4, <2>6 DEF Shown, n
<1> QED BY <1>1, <1>2, <1>3, <1>4 DEF Kinds

(* The invariant in the next state, written with its constant operators. *)
LEMMA NextShown ==
  /\ Consistent(Chain)' <=> Consistent(Chain')
  /\ Shown(Chain, row)' <=> Shown(Chain', row')
  /\ (\A p \in Polls : PollShown(Chain, poll[p]))' <=> \A p \in Polls : PollShown(Chain', poll'[p])
<1>1. Consistent(Chain)' <=> Consistent(Chain')
  BY DEF Consistent, Has, Chain, Image
<1> USE DEF Shown, PhaseShown, VotesShown, OutcomeShown, Has, VotesOf, Ayes, Nays,
            Cardinality, OutcomeOf, Chain, Image, PollShown
<1>2. Shown(Chain, row)' <=> Shown(Chain', row')
  OBVIOUS
<1>3. (\A p \in Polls : PollShown(Chain, poll[p]))' <=> \A p \in Polls : PollShown(Chain', poll'[p])
  OBVIOUS
<1> QED BY <1>1, <1>2, <1>3

LEMMA ChainFinite ==
  ASSUME events \in Seq(Events)
  PROVE  Chain \in SUBSET Events /\ IsFiniteSet(Chain) /\ Range(events) = Chain
<1>1. Chain \in SUBSET Events
  BY DEF Chain, Image
<1>2. events \in Seq(Chain) /\ \A e \in Chain : \E n \in 1..Len(events) : events[n] = e
  BY DEF Chain, Image
<1>3. IsFiniteSet(Chain)
  BY <1>2 DEF IsFiniteSet
<1> QED BY <1>1, <1>3 DEF Chain, Image, Range

(* An empty row shows nothing, whatever the chain has. *)
LEMMA NothingShown ==
  ASSUME NEW E, IsFiniteSet(E) PROVE NoRow \in Rows /\ Shown(E, NoRow)
<1>1. IsFiniteSet(VotesOf(E))
  BY VotesFinite
<1>2. Ayes(VotesOf(E)) \in Nat /\ Nays(VotesOf(E)) \in Nat
  BY <1>1, TalliesGrow
<1>3. NoRow \in Rows
  BY DEF NoRow, Rows, Phases
<1> QED BY <1>2, <1>3 DEF Shown, PhaseShown, VotesShown, OutcomeShown, NoRow

(* A step of the chain adds events that agree with the earlier ones. *)
LEMMA ChainKeeps ==
  ASSUME ListenerInv, UNCHANGED <<row, poll, cursor, owner>>, head' \in Nat,
         events' \in Seq(Events), NEW N, Chain' = Chain \cup N, Consistent(Chain')
  PROVE  ListenerInv'
<1>1. ListenerTypes'
  BY DEF ListenerInv, ListenerTypes
<1>2. IsFiniteSet(Chain')
  <2>1. events' \in Seq(Chain') /\ \A e \in Chain' : \E n \in 1..Len(events') : events'[n] = e
    BY DEF Chain, Image
  <2> QED BY <2>1 DEF IsFiniteSet
<1>3. \A d \in Rows : Shown(Chain, d) => Shown(Chain', d)
  BY <1>2, ShownGrows
<1>4. Shown(Chain', row')
  BY <1>3 DEF ListenerInv, ListenerTypes
<1>5. ASSUME NEW p \in Polls PROVE PollShown(Chain', poll'[p])
  <2>1. poll[p].entity \in Rows /\ PollShown(Chain, poll[p])
    BY DEF ListenerInv, ListenerTypes, PollStates
  <2> QED BY <1>3, <2>1 DEF PollShown
<1> QED BY <1>1, <1>4, <1>5, NextShown DEF ListenerInv

(* A step of a poll leaves the chain alone. *)
LEMMA PollKeeps ==
  ASSUME ListenerInv, UNCHANGED <<head, events, owner>>, row' \in Rows, Shown(Chain, row'),
         cursor' \in [Processes -> Nat], poll' \in [Polls -> PollStates],
         \A p \in Polls : PollShown(Chain, poll'[p])
  PROVE  ListenerInv'
<1>1. ListenerTypes'
  BY DEF ListenerInv, ListenerTypes
<1>2. Chain' = Chain
  BY DEF Chain, Image
<1> QED BY <1>1, <1>2, NextShown DEF ListenerInv

LEMMA ImageOfConcat ==
  ASSUME NEW s \in Seq(Events), NEW t \in Seq(Events)
  PROVE  s \o t \in Seq(Events) /\ Image(s \o t) = Image(s) \cup Image(t)
<1> DEFINE u == s \o t
           m == Len(s)
           n == Len(t)
<1>1. /\ u \in Seq(Events) /\ m \in Nat /\ n \in Nat /\ Len(u) = m + n
      /\ \A i \in 1..m : u[i] = s[i]
      /\ \A i \in 1..n : u[m + i] = t[i]
  OBVIOUS
<1>2. DOMAIN u = 1..(m + n) /\ DOMAIN s = 1..m /\ DOMAIN t = 1..n
  BY <1>1
<1> HIDE DEF u, m, n
<1>3. \A i \in 1..(m + n) : i \in 1..m \/ i - m \in 1..n
  BY <1>1
<1>4. \A i \in 1..(m + n) : u[i] \in Image(s) \cup Image(t)
  <2>1. ASSUME NEW i \in 1..(m + n), i - m \in 1..n PROVE u[i] = t[i - m]
    <3>1. m + (i - m) = i
      BY <1>1
    <3> QED BY <1>1, <2>1, <3>1
  <2> QED BY <1>1, <1>2, <1>3, <2>1 DEF Image
<1>5. /\ \A i \in 1..m : s[i] \in Image(u)
      /\ \A i \in 1..n : t[i] \in Image(u)
  <2>1. /\ \A i \in 1..m : i \in 1..(m + n)
        /\ \A i \in 1..n : m + i \in 1..(m + n)
    BY <1>1
  <2> QED BY <1>1, <1>2, <2>1 DEF Image
<1>6. Image(u) = Image(s) \cup Image(t)
  BY <1>2, <1>4, <1>5 DEF Image
<1> QED BY <1>1, <1>6 DEF u

LEMMA ImageOfTuples ==
  /\ \A e \in Events : <<e>> \in Seq(Events) /\ Image(<<e>>) = {e}
  /\ \A e, f \in Events : <<e, f>> \in Seq(Events) /\ Image(<<e, f>>) = {e, f}
  /\ <<>> \in Seq(Events) /\ Image(<<>>) = {}
<1>1. ASSUME NEW e \in Events PROVE <<e>> \in Seq(Events) /\ Image(<<e>>) = {e}
  BY DEF Image
<1>2. ASSUME NEW e \in Events, NEW f \in Events
      PROVE  <<e, f>> \in Seq(Events) /\ Image(<<e, f>>) = {e, f}
  BY DEF Image
<1>3. <<>> \in Seq(Events) /\ Image(<<>>) = {}
  BY DEF Image
<1> QED BY <1>1, <1>2, <1>3

LEMMA EmitKeeps ==
  ASSUME ListenerInv, NEW new \in Seq(Events), Emit(new),
         Consistent(Chain \cup Image(new))
  PROVE  ListenerInv'
<1>1. head' = head + 1 /\ events' = events \o new /\ UNCHANGED <<row, poll, cursor, owner>>
  BY DEF Emit
<1>2. head \in Nat /\ events \in Seq(Events)
  BY DEF ListenerInv, ListenerTypes
<1>3. events \o new \in Seq(Events) /\ Image(events \o new) = Chain \cup Image(new)
  BY <1>2, ImageOfConcat DEF Chain
<1>4. Chain' = Image(events \o new)
  BY <1>1 DEF Chain, Image
<1>5. head' \in Nat /\ events' \in Seq(Events) /\ Chain' = Chain \cup Image(new)
  BY <1>1, <1>2, <1>3, <1>4
<1> QED BY <1>1, <1>5, ChainKeeps

(* The entry points of the contract: one verdict, and a resolution with it. *)
LEMMA DisputeKeeps ==
  ASSUME ListenerInv,
         \/ DisputeRaised \/ DisputeFinalized \/ DisputeResolved
         \/ \E a \in PoolMembers, release \in BOOLEAN : VoteCast(a, release)
  PROVE  ListenerInv'
<1>1. head \in Nat /\ events \in Seq(Events) /\ Consistent(Chain)
  BY DEF ListenerInv, ListenerTypes
<1>2. Range(events) = Chain
  BY <1>1, ChainFinite
<1>3. \A k : Happened(k) <=> Has(Chain, k)
  BY <1>2 DEF Happened, Has
<1>4. ASSUME NEW k \in Kinds, NEW v \in Voters, NEW r \in BOOLEAN
      PROVE  /\ Event(k, v, r) \in Events
             /\ Event(k, v, r).kind = k /\ Event(k, v, r).release = r
  BY <1>1 DEF Event, Events
<1>5. "party" \in Voters /\ PoolMembers \subseteq Voters
  BY DEF Voters
<1>6. CASE DisputeRaised
  <2> DEFINE e == Event("raised", "party", FALSE)
  <2>1. e \in Events /\ e.kind = "raised" /\ Emit(<<e>>)
    BY <1>4, <1>5, <1>6 DEF DisputeRaised, Kinds
  <2> HIDE DEF e
  <2>2. Consistent(Chain \cup {e})
    BY <1>1, <2>1 DEF Consistent, Has
  <2> QED BY <2>1, <2>2, EmitKeeps, ImageOfTuples
<1>7. ASSUME NEW a \in PoolMembers, NEW r \in BOOLEAN, VoteCast(a, r)
      PROVE  ListenerInv'
  <2> DEFINE e == Event("vote", a, r)
             f == Event("verdict", "party", r)
  <2>1. /\ e \in Events /\ e.kind = "vote"
        /\ f \in Events /\ f.kind = "verdict"
    BY <1>4, <1>5 DEF Kinds
  <2>2. ~Has(Chain, "verdict")
    BY <1>3, <1>7 DEF VoteCast
  <2>3. Emit(<<e>> \o <<f>>) \/ Emit(<<e>> \o <<>>)
    BY <1>7 DEF VoteCast
  <2> HIDE DEF e, f
  <2>6. Consistent(Chain \cup {e}) /\ Consistent(Chain \cup {e, f})
    BY <1>1, <2>1, <2>2 DEF Consistent, Has
  <2>7. /\ <<e>> \o <<f>> \in Seq(Events) /\ Image(<<e>> \o <<f>>) = {e} \cup {f}
        /\ <<e>> \o <<>> \in Seq(Events) /\ Image(<<e>> \o <<>>) = {e} \cup {}
    <3>1. /\ <<e>> \in Seq(Events) /\ <<f>> \in Seq(Events) /\ <<>> \in Seq(Events)
          /\ Image(<<e>>) = {e} /\ Image(<<f>>) = {f} /\ Image(<<>>) = {}
      BY <2>1, ImageOfTuples
    <3>2. \A s, t \in Seq(Events) : s \o t \in Seq(Events) /\ Image(s \o t) = Image(s) \cup Image(t)
      BY ImageOfConcat
    <3>3. /\ <<e>> \o <<f>> \in Seq(Events) /\ Image(<<e>> \o <<f>>) = Image(<<e>>) \cup Image(<<f>>)
          /\ <<e>> \o <<>> \in Seq(Events) /\ Image(<<e>> \o <<>>) = Image(<<e>>) \cup Image(<<>>)
      BY <3>1, <3>2, Zenon
    <3> QED BY <3>1, <3>3, Zenon
  <2>8. /\ Consistent(Chain \cup Image(<<e>> \o <<f>>))
        /\ Consistent(Chain \cup Image(<<e>> \o <<>>))
    <3>1. {e} \cup {f} = {e, f} /\ {e} \cup {} = {e}
      OBVIOUS
    <3> QED BY <2>6, <2>7, <3>1, Zenon
  <2> QED BY <2>3, <2>7, <2>8, EmitKeeps
<1>8. Majority \in BOOLEAN
  BY DEF Majority
<1>9. CASE DisputeFinalized
  <2> DEFINE f == Event("verdict", "party", Majority)
  <2>1. f \in Events /\ f.kind = "verdict" /\ Emit(<<f>>) /\ ~Has(Chain, "verdict")
    BY <1>3, <1>4, <1>5, <1>8, <1>9 DEF DisputeFinalized, Kinds
  <2> HIDE DEF f
  <2>2. Consistent(Chain \cup {f})
    BY <1>1, <2>1 DEF Consistent, Has
  <2> QED BY <2>1, <2>2, EmitKeeps, ImageOfTuples
<1>10. CASE Has(Chain, "verdict") /\ Emit(<<Event("resolved", "party", Verdict)>>)
  <2> DEFINE g == Event("resolved", "party", Verdict)
  <2>1. PICK c \in Chain : c.kind = "verdict" /\ Verdict = c.release
    BY <1>2, <1>10 DEF Has, Verdict
  <2>2. c.release \in BOOLEAN
    BY <1>1, <2>1, ChainFinite DEF Events
  <2>3. g \in Events /\ g.kind = "resolved" /\ g.release = c.release /\ Emit(<<g>>)
    BY <1>4, <1>5, <1>10, <2>1, <2>2 DEF Kinds
  <2> HIDE DEF g
  <2>4. Consistent(Chain \cup {g})
    BY <1>1, <1>10, <2>1, <2>3 DEF Consistent, Has
  <2> QED BY <2>3, <2>4, EmitKeeps, ImageOfTuples
<1>11. CASE ~Has(Chain, "verdict") /\ Emit(<<Event("verdict", "party", Majority),
                                           Event("resolved", "party", Majority)>>)
  <2> DEFINE f == Event("verdict", "party", Majority)
             g == Event("resolved", "party", Majority)
  <2>1. /\ f \in Events /\ f.kind = "verdict" /\ g \in Events /\ g.kind = "resolved"
        /\ f.release = g.release /\ Emit(<<f, g>>) /\ ~Has(Chain, "verdict")
    BY <1>4, <1>5, <1>8, <1>11 DEF Kinds
  <2> HIDE DEF f, g
  <2>2. Consistent(Chain \cup {f, g})
    BY <1>1, <2>1 DEF Consistent, Has
  <2> QED BY <2>1, <2>2, EmitKeeps, ImageOfTuples
<1>12. CASE DisputeResolved
  BY <1>3, <1>10, <1>11, <1>12 DEF DisputeResolved
<1> QED BY <1>6, <1>7, <1>9, <1>12

LEMMA InitListener ==
  ASSUME ListenerInit PROVE ListenerInv
<1>1. Chain = {} /\ IsFiniteSet(Chain)
  <2>1. Image(<<>>) = {}
    BY ImageOfTuples
  <2>2. Chain = {}
    BY <2>1 DEF ListenerInit, Chain
  <2> QED BY <2>2, FS_EmptySet
<1>2. NoRow \in Rows /\ Shown(Chain, NoRow)
  BY <1>1, NothingShown
<1>3. Idle \in PollStates /\ PollShown(Chain, Idle)
  BY <1>2 DEF Idle, PollStates, PollShown
<1>4. ListenerTypes
  BY <1>2, <1>3, ListenerAssumption DEF ListenerInit, ListenerTypes
<1>5. Consistent(Chain)
  BY <1>1 DEF Consistent, Has
<1> QED BY <1>2, <1>3, <1>4, <1>5 DEF ListenerInv, ListenerInit

LEMMA MaxOfTwo ==
  ASSUME NEW a \in Int, NEW b \in Int PROVE Max({a, b}) \in {a, b}
<1>1. \E x \in {a, b} : \A y \in {a, b} : x >= y
  OBVIOUS
<1> QED BY <1>1 DEF Max

(* A poll that changes its own state, and perhaps the row, and is left with *)
(* a state that shows nothing else.                                         *)
LEMMA LocalKeeps ==
  ASSUME ListenerInv, NEW p \in Polls, NEW s \in PollStates, Local(p, s),
         PollShown(Chain, s), UNCHANGED <<head, events, owner>>,
         row' \in Rows, Shown(Chain, row'), cursor' \in [Processes -> Nat]
  PROVE  ListenerInv'
<1>1. poll \in [Polls -> PollStates] /\ \A r \in Polls : PollShown(Chain, poll[r])
  BY DEF ListenerInv, ListenerTypes
<1>2. poll' = [poll EXCEPT ![p] = s]
  BY DEF Local
<1>3. poll' \in [Polls -> PollStates] /\ \A r \in Polls : PollShown(Chain, poll'[r])
  BY <1>1, <1>2
<1> QED BY <1>3, PollKeeps

(* A part of the events that begins and ends within them. *)
LEMMA PartOfEvents ==
  ASSUME NEW m \in Nat, NEW n \in Nat, NEW e \in Seq(Events), n <= Len(e)
  PROVE  /\ SubSeq(e, m + 1, n) \in Seq(Events)
         /\ \A i \in 1..Len(SubSeq(e, m + 1, n)) : SubSeq(e, m + 1, n)[i] \in Image(e)
<1> DEFINE b == SubSeq(e, m + 1, n)
<1>1. Len(e) \in Nat /\ DOMAIN e = 1..Len(e) /\ \A i \in 1..Len(e) : e[i] \in Events
  OBVIOUS
<1>2. CASE m + 1 <= n
  <2>1. Len(b) = n - m /\ \A i \in 1..(n - m) : b[i] = e[m + i]
    BY <1>1, <1>2
  <2>2. \A i \in 1..(n - m) : m + i \in 1..Len(e)
    BY <1>1, <1>2
  <2>3. b \in Seq(Events)
    BY <1>1, <1>2, <2>1, <2>2
  <2>4. \A i \in 1..(n - m) : b[i] \in Image(e)
    BY <1>1, <2>1, <2>2 DEF Image
  <2> HIDE DEF b
  <2>5. \A i \in 1..Len(b) : b[i] \in Image(e)
    BY <2>1, <2>4
  <2> QED BY <2>3, <2>5 DEF b
<1>3. CASE m + 1 > n
  <2>1. b = <<>> /\ Len(<<>>) = 0
    BY <1>1, <1>3
  <2>2. 1..0 = {} /\ <<>> \in Seq(Events)
    OBVIOUS
  <2> HIDE DEF b
  <2> QED BY <2>1, <2>2 DEF b
<1>4. m + 1 <= n \/ m + 1 > n
  OBVIOUS
<1> QED BY <1>2, <1>3, <1>4, Zenon

LEMMA PollStepKeeps ==
  ASSUME ListenerInv, NEW p \in Polls,
         PollStep(p) \/ PollThrows(p)
  PROVE  ListenerInv'
<1>0. PICK s : s = poll[p]
  OBVIOUS
<1>1. /\ head \in Nat /\ events \in Seq(Events) /\ row \in Rows /\ Shown(Chain, row)
      /\ owner[p] \in Processes /\ cursor \in [Processes -> Nat] /\ cursor[owner[p]] \in Nat
  BY DEF ListenerInv, ListenerTypes
<1>2. Chain \in SUBSET Events /\ IsFiniteSet(Chain) /\ Consistent(Chain)
  BY <1>1, ChainFinite DEF ListenerInv
<1>3. s \in PollStates /\ PollShown(Chain, s)
  BY <1>0 DEF ListenerInv, ListenerTypes
<1>4. NoRow \in Rows /\ Shown(Chain, NoRow)
  BY <1>2, NothingShown
<1>5. Idle \in PollStates /\ PollShown(Chain, Idle)
  BY <1>4 DEF Idle, PollStates, PollShown
<1>6. CASE StartPoll(p)
  <2>1. PICK t : t = [Idle EXCEPT !.at = "fetch", !.start = cursor[owner[p]] + 1]
    OBVIOUS
  <2>2. t \in PollStates /\ t.at = "fetch" /\ t.batch = <<>> /\ t.entity = NoRow
    <3>1. PICK n \in Nat : n = cursor[owner[p]] + 1
      BY <1>1
    <3>2. t = [Idle EXCEPT !.at = "fetch", !.start = n]
      BY <2>1, <3>1
    <3>3. t \in PollStates /\ t.at = "fetch" /\ t.batch = Idle.batch
          /\ t.entity = Idle.entity
      BY <1>5, <3>2 DEF PollStates
    <3> QED BY <3>3 DEF Idle
  <2>3. PollShown(Chain, t)
    BY <1>4, <2>2 DEF PollShown
  <2>4. UNCHANGED <<head, events, owner, row>>
    BY <1>6 DEF StartPoll, chain
  <2>5. CASE linked
    <3>1. Local(p, t) /\ cursor' = cursor
      BY <1>6, <2>1, <2>5 DEF StartPoll
    <3> QED BY <1>1, <2>2, <2>3, <2>4, <3>1, LocalKeeps
  <2>6. CASE ~linked
    <3>1. poll' = poll /\ cursor' = [cursor EXCEPT ![owner[p]] = head]
      BY <1>6, <2>6 DEF StartPoll
    <3>2. cursor' \in [Processes -> Nat] /\ row' \in Rows /\ Shown(Chain, row')
      BY <1>1, <2>4, <3>1
    <3>3. poll' \in [Polls -> PollStates] /\ \A r \in Polls : PollShown(Chain, poll'[r])
      BY <3>1 DEF ListenerInv, ListenerTypes
    <3> QED BY <2>4, <3>2, <3>3, PollKeeps
  <2> QED BY <2>5, <2>6
<1>7. CASE GetEvents(p)
  <2>1. PICK skipped \in 0..Len(events) : \E last, b, t :
          /\ last = IF skipped + Limit < Len(events) THEN skipped + Limit ELSE Len(events)
          /\ b = SubSeq(events, skipped + 1, last)
          /\ t = [s EXCEPT !.at = "next", !.start = 0, !.latest = head, !.batch = b]
          /\ Local(p, t)
          /\ UNCHANGED <<head, events, owner, row, cursor>>
    BY <1>0, <1>7 DEF GetEvents, chain
  <2>2. PICK last, b, t :
          /\ last = IF skipped + Limit < Len(events) THEN skipped + Limit ELSE Len(events)
          /\ b = SubSeq(events, skipped + 1, last)
          /\ t = [s EXCEPT !.at = "next", !.start = 0, !.latest = head, !.batch = b]
          /\ Local(p, t)
          /\ UNCHANGED <<head, events, owner, row, cursor>>
    BY <2>1
  <2>3. last \in Nat /\ last <= Len(events)
    <3>1. Len(events) \in Nat /\ skipped \in Nat /\ Limit \in Nat
      BY <1>1, <2>1, ListenerAssumption
    <3> QED BY <2>2, <3>1
  <2>4. b \in Seq(Events) /\ \A i \in 1..Len(b) : b[i] \in Chain
    <3>1. skipped \in Nat
      BY <1>1, <2>1
    <3> QED BY <1>1, <2>2, <2>3, <3>1, PartOfEvents DEF Chain
  <2>5. t \in PollStates /\ t.at = "next" /\ t.batch = b /\ t.entity = s.entity
    <3>1. s \in PollStates /\ b \in Seq(Events)
      BY <1>3, <2>4
    <3>2. PICK n \in Nat : n = head
      BY <1>1
    <3>3. t = [s EXCEPT !.at = "next", !.start = 0, !.latest = n, !.batch = b]
      BY <2>2, <3>2
    <3> QED BY <3>1, <3>2, <3>3 DEF PollStates
  <2>6. PollShown(Chain, t)
    BY <1>3, <2>4, <2>5 DEF PollShown
  <2> QED BY <1>1, <2>2, <2>5, <2>6, LocalKeeps
(* The head of a batch is an event of the chain, and so is all of its tail. *)
<1>8. ASSUME s.batch # <<>>
      PROVE  /\ Head(s.batch) \in Chain /\ Tail(s.batch) \in Seq(Events)
             /\ \A i \in 1..Len(Tail(s.batch)) : Tail(s.batch)[i] \in Chain
  <2>1. s.batch \in Seq(Events) /\ \A i \in 1..Len(s.batch) : s.batch[i] \in Chain
    BY <1>3 DEF PollStates, PollShown
  <2>2. PICK b \in Seq(Events) : b = s.batch
    BY <2>1
  <2>3. /\ b # <<>> /\ Len(b) \in Nat \ {0} /\ Head(b) = b[1]
        /\ Tail(b) \in Seq(Events) /\ Len(Tail(b)) = Len(b) - 1
        /\ \A i \in 1..Len(Tail(b)) : Tail(b)[i] = b[i + 1]
    BY <1>8, <2>2
  <2>4. \A i \in 1..Len(Tail(b)) : i + 1 \in 1..Len(b)
    BY <2>3
  <2> QED BY <2>1, <2>2, <2>3, <2>4
<1>9. CASE ReadRow(p)
  <2>1. /\ s.at = "next" /\ s.batch # <<>> /\ UNCHANGED <<head, events, owner, row, cursor>>
        /\ \E t : /\ Local(p, t)
                  /\ \/ t = [s EXCEPT !.batch = Tail(@)]
                     \/ t = [s EXCEPT !.at = "save", !.entity = row]
    BY <1>0, <1>9 DEF ReadRow, chain
  <2>2. PICK t : /\ Local(p, t)
                 /\ \/ t = [s EXCEPT !.batch = Tail(@)]
                    \/ t = [s EXCEPT !.at = "save", !.entity = row]
    BY <2>1
  <2>3. CASE t = [s EXCEPT !.batch = Tail(@)]
    <3>1. PICK b \in Seq(Events) : b = Tail(s.batch)
      BY <1>8, <2>1
    <3>2. t = [s EXCEPT !.batch = b]
      BY <2>3, <3>1
    <3>3. t \in PollStates /\ t.at = s.at /\ t.batch = b /\ t.entity = s.entity
      BY <1>3, <3>1, <3>2 DEF PollStates
    <3>4. PollShown(Chain, t)
      BY <1>3, <1>8, <2>1, <3>1, <3>3 DEF PollShown
    <3> QED BY <1>1, <2>1, <2>2, <3>3, <3>4, LocalKeeps
  <2>4. CASE t = [s EXCEPT !.at = "save", !.entity = row]
    <3>2. t \in PollStates /\ t.at = "save" /\ t.batch = s.batch /\ t.entity = row
      <4>1. s \in PollStates /\ row \in Rows
        BY <1>1, <1>3
      <4>2. PICK d \in Rows : d = row
        BY <4>1
      <4>3. t = [s EXCEPT !.at = "save", !.entity = d]
        BY <2>4, <4>2
      <4>4. t \in PollStates /\ t.at = "save" /\ t.batch = s.batch /\ t.entity = d
        BY <4>1, <4>2, <4>3 DEF PollStates
      <4> QED BY <4>2, <4>4
    <3>3. PollShown(Chain, t)
      BY <1>1, <1>3, <2>1, <3>2 DEF PollShown
    <3> QED BY <1>1, <2>1, <2>2, <3>2, <3>3, LocalKeeps
  <2> QED BY <2>2, <2>3, <2>4
<1>10. CASE SaveRow(p)
  <2>1. /\ s.at = "save" /\ row' = IndexDisputeEvent(s.entity, Head(s.batch))
        /\ Local(p, [s EXCEPT !.at = "next", !.batch = Tail(@), !.entity = NoRow])
        /\ UNCHANGED <<head, events, owner, cursor>>
    BY <1>0, <1>10 DEF SaveRow, chain
  <2>2. s.batch # <<>> /\ s.entity \in Rows /\ Shown(Chain, s.entity)
    BY <1>3, <2>1 DEF PollShown, PollStates
  <2>3. row' \in Rows /\ Shown(Chain, row')
    BY <1>2, <1>8, <2>1, <2>2, IndexShown
  <2>4. PICK b \in Seq(Events) : b = Tail(s.batch)
    BY <1>8, <2>2
  <2>5. PICK t : t = [s EXCEPT !.at = "next", !.batch = b, !.entity = NoRow]
    OBVIOUS
  <2>6. t \in PollStates /\ t.at = "next" /\ t.batch = b /\ t.entity = NoRow
    <3>1. s \in PollStates /\ b \in Seq(Events)
      BY <1>3, <2>4
    <3>2. PICK d \in Rows : d = NoRow
      BY <1>4
    <3>3. t = [s EXCEPT !.at = "next", !.batch = b, !.entity = d]
      BY <2>5, <3>2
    <3>4. t \in PollStates /\ t.at = "next" /\ t.batch = b /\ t.entity = d
      BY <3>1, <3>2, <3>3 DEF PollStates
    <3> QED BY <3>2, <3>4
  <2>7. PollShown(Chain, t)
    BY <1>4, <1>8, <2>2, <2>4, <2>6 DEF PollShown
  <2>8. Local(p, t)
    BY <2>1, <2>4, <2>5
  <2> QED BY <1>1, <2>1, <2>3, <2>6, <2>7, <2>8, LocalKeeps
<1>11. CASE EndPoll(p)
  <2>1. /\ Local(p, Idle) /\ UNCHANGED <<head, events, owner, row>>
        /\ cursor' = [cursor EXCEPT ![owner[p]] = Max({@, s.latest})]
    BY <1>0, <1>11 DEF EndPoll, chain
  <2>2. s.latest \in Nat
    BY <1>3 DEF PollStates
  <2>3. Max({cursor[owner[p]], s.latest}) \in Nat
    BY <1>1, <2>2, MaxOfTwo
  <2>4. cursor' \in [Processes -> Nat]
    BY <1>1, <2>1, <2>3
  <2> QED BY <1>1, <1>5, <2>1, <2>4, LocalKeeps
<1>12. CASE PollThrows(p)
  <2>1. Local(p, Idle) /\ UNCHANGED <<head, events, owner, row, cursor>>
    BY <1>12 DEF PollThrows, chain
  <2> QED BY <1>1, <1>5, <2>1, LocalKeeps
<1> QED BY <1>6, <1>7, <1>9, <1>10, <1>11, <1>12 DEF PollStep

LEMMA RestartKeeps ==
  ASSUME ListenerInv, NEW q \in Processes, Restart(q)
  PROVE  ListenerInv'
<1>1. PICK c \in {0, Max({0, head - Lookback})} :
        /\ cursor' = [cursor EXCEPT ![q] = c]
        /\ poll' = [p \in Polls |-> IF owner[p] = q THEN Idle ELSE poll[p]]
        /\ UNCHANGED <<head, events, owner, row>>
  BY DEF Restart, chain
<1>2. /\ head \in Nat /\ events \in Seq(Events) /\ row \in Rows /\ Shown(Chain, row)
      /\ cursor \in [Processes -> Nat] /\ poll \in [Polls -> PollStates]
      /\ \A p \in Polls : PollShown(Chain, poll[p])
  BY DEF ListenerInv, ListenerTypes
<1>3. c \in Nat
  <2>1. head - Lookback \in Int
    BY <1>2, ListenerAssumption
  <2>2. Max({0, head - Lookback}) \in Nat
    <3>1. \E x \in {0, head - Lookback} : \A y \in {0, head - Lookback} : x >= y
      BY <2>1
    <3>2. Max({0, head - Lookback}) >= 0 /\ Max({0, head - Lookback}) \in Int
      BY <2>1, <3>1 DEF Max
    <3> QED BY <3>2
  <2> QED BY <1>1, <2>2
<1>4. IsFiniteSet(Chain)
  BY <1>2, ChainFinite
<1>5. NoRow \in Rows /\ Shown(Chain, NoRow)
  BY <1>4, NothingShown
<1>6. Idle \in PollStates /\ PollShown(Chain, Idle)
  BY <1>5 DEF Idle, PollStates, PollShown
<1>7. poll' \in [Polls -> PollStates] /\ \A p \in Polls : PollShown(Chain, poll'[p])
  BY <1>1, <1>2, <1>6
<1>8. cursor' \in [Processes -> Nat] /\ row' \in Rows /\ Shown(Chain, row')
  BY <1>1, <1>2, <1>3
<1> QED BY <1>1, <1>7, <1>8, PollKeeps

LEMMA NextListener ==
  ListenerInv /\ [ListenerNext]_listenerVars => ListenerInv'
<1> SUFFICES ASSUME ListenerInv, [ListenerNext]_listenerVars PROVE ListenerInv'
  OBVIOUS
<1>1. CASE ChainStep
  <2>1. CASE EmptyLedger \/ LinkCampaign
    <3>1. /\ UNCHANGED <<events, row, cursor, owner, poll>>
          /\ head' = head \/ head' = head + 1
      BY <2>1 DEF EmptyLedger, LinkCampaign, chain
    <3>2. head' \in Nat /\ events' \in Seq(Events) /\ Consistent(Chain)
      BY <3>1 DEF ListenerInv, ListenerTypes
    <3>3. Chain' = Chain
      BY <3>1 DEF Chain, Image
    <3>4. Chain' = Chain \cup {} /\ Consistent(Chain')
      BY <3>2, <3>3
    <3> QED BY <3>1, <3>2, <3>4, ChainKeeps
  <2> QED BY <1>1, <2>1, DisputeKeeps DEF ChainStep
<1>2. CASE \E p \in Polls : PollStep(p) \/ PollThrows(p)
  BY <1>2, PollStepKeeps
<1>3. CASE \E q \in Processes : Restart(q)
  BY <1>3, RestartKeeps
<1>4. CASE UNCHANGED listenerVars
  <2>1. UNCHANGED <<head, events, owner, row, cursor, poll>>
    BY <1>4 DEF listenerVars, chain
  <2>2. /\ row' \in Rows /\ Shown(Chain, row') /\ cursor' \in [Processes -> Nat]
        /\ poll' \in [Polls -> PollStates] /\ \A p \in Polls : PollShown(Chain, poll'[p])
    BY <2>1 DEF ListenerInv, ListenerTypes
  <2> QED BY <2>1, <2>2, PollKeeps
<1> QED BY <1>1, <1>2, <1>3, <1>4 DEF ListenerNext

(* What a row shows is what NeverAhead says. *)
LEMMA ShownIsNeverAhead == ListenerInv => NeverAhead
<1> SUFFICES ASSUME ListenerInv PROVE NeverAhead
  OBVIOUS
<1>1. events \in Seq(Events) /\ row \in Rows /\ Consistent(Chain) /\ Shown(Chain, row)
  BY DEF ListenerInv, ListenerTypes
<1>2. Range(events) = Chain /\ Chain \in SUBSET Events
  BY <1>1, ChainFinite
<1>3. \A k : Happened(k) <=> Has(Chain, k)
  BY <1>2 DEF Happened, Has
<1>4. Votes = VotesOf(Chain)
  BY <1>2 DEF Votes, VotesOf
<1>5. \A votes : For(votes, TRUE) = Ayes(votes) /\ For(votes, FALSE) = Nays(votes)
  BY Zenon DEF For, Ayes, Nays
<1>6. /\ row.votes \subseteq Votes
      /\ row.releaseVotes <= For(Votes, TRUE)
      /\ row.refundVotes <= For(Votes, FALSE)
  <2>1. /\ row.votes \subseteq VotesOf(Chain)
        /\ row.releaseVotes <= Ayes(VotesOf(Chain)) /\ row.refundVotes <= Nays(VotesOf(Chain))
    BY <1>1 DEF Shown, VotesShown
  <2>2. /\ For(Votes, TRUE) = Ayes(VotesOf(Chain))
        /\ For(Votes, FALSE) = Nays(VotesOf(Chain))
    BY <1>4, <1>5, Zenon
  <2> QED BY <1>4, <2>1, <2>2
<1>7. ASSUME row.outcome # "none"
      PROVE  Happened("verdict") /\ row.outcome = OutcomeOf(Verdict)
  <2>1. PICK e \in Chain : e.kind = "verdict" /\ row.outcome = OutcomeOf(e.release)
    BY <1>1, <1>7 DEF Shown, OutcomeShown
  <2>2. PICK c \in Chain : c.kind = "verdict" /\ Verdict = c.release
    BY <1>2, <2>1 DEF Verdict
  <2>3. e.release = c.release
    BY <1>1, <2>1, <2>2 DEF Consistent
  <2>4. Happened("verdict")
    BY <1>3, <2>1 DEF Has
  <2> QED BY <2>1, <2>2, <2>3, <2>4
<1>8. Rank[row.phase] <= Rank[ChainPhase]
  <2>1. /\ row.phase \in Phases /\ PhaseShown(Chain, row)
    BY <1>1 DEF Rows, Shown
  <2>2. /\ row.phase = "open" => Happened("raised")
        /\ row.phase = "arbitration" => Votes # {}
        /\ row.phase = "verdict" => Happened("verdict")
        /\ row.phase = "resolved" => Happened("resolved")
    BY <1>3, <1>4, <2>1 DEF PhaseShown, Has, VotesOf
  <2>3. /\ Rank["none"] = 0 /\ Rank["open"] = 1 /\ Rank["arbitration"] = 2
        /\ Rank["verdict"] = 3 /\ Rank["resolved"] = 4
    BY DEF Rank
  <2>4. /\ Happened("resolved") => ChainPhase = "resolved"
        /\ Happened("verdict") => ChainPhase \in {"verdict", "resolved"}
        /\ Votes # {} => ChainPhase \in {"arbitration", "verdict", "resolved"}
        /\ Happened("raised") => ChainPhase \in Phases \ {"none"}
        /\ ChainPhase \in Phases
    BY DEF ChainPhase, Phases
  <2> QED BY <2>1, <2>2, <2>3, <2>4 DEF Phases
<1> QED BY <1>6, <1>7, <1>8 DEF NeverAhead

(* The row of contract_disputes never claims more than the contract decided *)
(* (NeverAhead), for any arbitrators, quorum, replicas, polls that overlap, *)
(* batch limit, failing calls and restarts: votes and tallies are votes on  *)
(* the chain, the outcome is the verdict, the phase is not ahead.           *)
THEOREM NeverAheadHolds == ListenerSpec => []NeverAhead
<1>1. ListenerInit => ListenerInv
  BY InitListener
<1>2. ListenerInv /\ [ListenerNext]_listenerVars => ListenerInv'
  BY NextListener
<1> QED BY <1>1, <1>2, ShownIsNeverAhead, PTL DEF ListenerSpec

-----------------------------------------------------------------------------
(* Convergence of the projection.  Shown bounds a row from above; what it   *)
(* must show at least (Shows) follows the readers: the events that every    *)
(* process has read (Floor), and while a poll replays a part of the chain,  *)
(* the events up to its position in it (Reached).  Replaying is sound as    *)
(* the events come in the order of the contract (Ordered): an event never   *)
(* takes back what an earlier one says, except that the first one resets    *)
(* the row, and before that one no process of a poll has read anything.     *)
(* All this holds until events are lost (damaged).                          *)

\* e is emitted before f.
Before(e, f) ==
    /\ e.ledger <= f.ledger
    /\ f.kind # "raised"
    /\ f.kind = "vote" => e.kind \in {"raised", "vote"}
    /\ f.kind = "vote" /\ e.kind = "vote" => e.voter # f.voter
    /\ f.kind = "verdict" => e.kind \in {"raised", "vote"}
    /\ f.kind = "resolved" => e.kind # "resolved"
Ordered(ev) ==
    /\ \A i, j \in 1..Len(ev) : i < j => Before(ev[i], ev[j])
    /\ Len(ev) > 0 => ev[1].kind = "raised"

\* How far the process of each poll has read; the first m events, all of which
\* every process has read.
Seen == [p \in Polls |-> cursor[owner[p]]]
First(ev, m) == {ev[j] : j \in 1..m}
ReadByAll(ev, seen, m) == \A p \in Polls : \A j \in 1..m : ev[j].ledger <= seen[p]

\* The row d shows the events E.
Shows(E, d) ==
    /\ VotesOf(E) \subseteq d.votes
    /\ Has(E, "raised") => d.phase # "none"
    /\ Has(E, "vote") => d.phase \notin {"none", "open"}
    /\ Has(E, "verdict") => d.phase \in {"verdict", "resolved"} /\ d.outcome # "none"
    /\ Has(E, "resolved") => d.phase = "resolved"
Tallied(d) == d.releaseVotes = Ayes(d.votes) /\ d.refundVotes = Nays(d.votes)

\* The row shows what every process has read, and is there once one of them has
\* read that the dispute was raised.
Floor(ev, seen, d) == \A m \in 0..Len(ev) : ReadByAll(ev, seen, m) => Shows(First(ev, m), d)
Known(ev, seen, d) ==
    \A p \in Polls : Len(ev) > 0 /\ ev[1].ledger <= seen[p] => d.phase # "none"

\* A poll whose process had read the first s events has i of the events behind
\* it, up to l before it, and the row shows the i events if all have read the s.
Reached(ev, seen, d, p, st, s, i, l) ==
    /\ s <= i /\ i <= l
    /\ Len(st.batch) = l - i /\ \A k \in 1..Len(st.batch) : st.batch[k] = ev[i + k]
    /\ \A j \in 1..Len(ev) : ev[j].ledger <= seen[p] <=> j <= s
    /\ \A j \in 1..Len(ev) : j > l => ev[j].ledger > st.latest
    /\ ReadByAll(ev, seen, s) => Shows(First(ev, i), d)
Position(ev, seen, d, p, st) ==
    /\ st.at = "fetch" => \A j \in 1..Len(ev) : ev[j].ledger < st.start <=> ev[j].ledger <= seen[p]
    /\ st.at \in {"next", "save"} => \E s, i, l \in 0..Len(ev) : Reached(ev, seen, d, p, st, s, i, l)
    /\ st.at = "save" => st.entity = d

Alone(state) == \A p, r \in Polls : state[p].at # "idle" /\ state[r].at # "idle" => p = r

Faithful(ev, seen, d, state) ==
    /\ Alone(state) /\ Tallied(d) /\ Floor(ev, seen, d) /\ Known(ev, seen, d)
    /\ \A p \in Polls : Position(ev, seen, d, p, state[p])
Behind ==
    /\ \A i \in 1..Len(events) : events[i].ledger <= head
    /\ \A q \in Processes : cursor[q] <= head
    /\ \A p \in Polls : poll[p].start <= head /\ poll[p].latest <= head
ReplayInv ==
    /\ Ordered(events) /\ Behind
    /\ damaged \/ Faithful(events, Seen, row, poll)

LEMMA ShowsLess ==
  ASSUME NEW E, NEW T, T \subseteq E, NEW d, Shows(E, d) PROVE Shows(T, d)
<1>1. VotesOf(T) \subseteq VotesOf(E)
  BY DEF VotesOf
<1> QED BY <1>1 DEF Shows, Has

(* The fields that indexDisputeEvent gives a row. *)
Indexed(d, e, n) ==
    LET v == [voter |-> e.voter, release |-> e.release]
    IN  /\ e.kind = "raised" => n = Opened
        /\ e.kind = "vote" =>
             /\ n.votes = IF \E w \in d.votes : w.voter = e.voter THEN d.votes ELSE d.votes \cup {v}
             /\ n.releaseVotes = Ayes(n.votes)
             /\ n.refundVotes = Cardinality(n.votes) - Ayes(n.votes)
             /\ n.phase = IF d.phase = "open" THEN "arbitration" ELSE d.phase
             /\ n.outcome = d.outcome
        /\ e.kind \in {"verdict", "resolved"} =>
             /\ n.votes = d.votes /\ n.releaseVotes = d.releaseVotes
             /\ n.refundVotes = d.refundVotes
             /\ n.phase = e.kind /\ n.outcome = OutcomeOf(e.release)

LEMMA IndexFields ==
  ASSUME NEW d \in Rows, NEW e \in Events
  PROVE  Indexed(d, e, IndexDisputeEvent(d, e))
<1> DEFINE n == IndexDisputeEvent(d, e)
           v == [voter |-> e.voter, release |-> e.release]
           votes == IF \E w \in d.votes : w.voter = e.voter THEN d.votes ELSE d.votes \cup {v}
<1>1. CASE e.kind = "raised"
  BY <1>1 DEF IndexDisputeEvent, Indexed
<1>2. CASE e.kind = "vote"
  <2>1. For(votes, TRUE) = Ayes(votes)
    BY Zenon DEF For, Ayes
  <2>2. n = [d EXCEPT !.votes = votes, !.releaseVotes = Ayes(votes),
                      !.refundVotes = Cardinality(votes) - Ayes(votes),
                      !.phase = IF @ = "open" THEN "arbitration" ELSE @]
    BY <1>2, <2>1 DEF IndexDisputeEvent, WithVote
  <2> HIDE DEF n, votes
  <2>3. /\ n.votes = votes /\ n.releaseVotes = Ayes(votes)
        /\ n.refundVotes = Cardinality(votes) - Ayes(votes)
        /\ n.phase = (IF d.phase = "open" THEN "arbitration" ELSE d.phase)
        /\ n.outcome = d.outcome
    BY <2>2 DEF Rows
  <2>4. Indexed(d, e, n)
    BY <1>2, <2>3 DEF Indexed, votes
  <2> QED BY <2>4 DEF n
<1>3. CASE e.kind \in {"verdict", "resolved"}
  <2>1. n = [d EXCEPT !.outcome = OutcomeOf(e.release), !.phase = e.kind]
    BY <1>3 DEF IndexDisputeEvent
  <2> HIDE DEF n
  <2>2. /\ n.votes = d.votes /\ n.releaseVotes = d.releaseVotes /\ n.refundVotes = d.refundVotes
        /\ n.phase = e.kind /\ n.outcome = OutcomeOf(e.release)
    BY <2>1 DEF Rows
  <2>3. Indexed(d, e, n)
    BY <1>3, <2>2 DEF Indexed
  <2> QED BY <2>3 DEF n
<1> QED BY <1>1, <1>2, <1>3 DEF Events, Kinds

LEMMA NoVotes == Ayes({}) = 0 /\ Nays({}) = 0
<1>1. {w \in {} : w.release = TRUE} = {} /\ {w \in {} : w.release = FALSE} = {}
  OBVIOUS
<1> QED BY <1>1, FS_EmptySet DEF Ayes, Nays

LEMMA IndexTallied ==
  ASSUME NEW d \in Rows, NEW e \in Events, IsFiniteSet(d.votes), Tallied(d)
  PROVE  Tallied(IndexDisputeEvent(d, e))
<1> DEFINE n == IndexDisputeEvent(d, e)
           v == [voter |-> e.voter, release |-> e.release]
<1>1. e.kind \in Kinds /\ e.release \in BOOLEAN /\ \A w \in d.votes : w.release \in BOOLEAN
  BY DEF Events, Rows
<1>0. Indexed(d, e, n)
  BY IndexFields
<1> HIDE DEF n
<1>2. CASE e.kind = "raised"
  <2>1. n.votes = {} /\ n.releaseVotes = 0 /\ n.refundVotes = 0
    <3>1. n = Opened
      BY <1>0, <1>2 DEF Indexed
    <3> QED BY <3>1 DEF Opened, NoRow
  <2>2. Ayes({}) = 0 /\ Nays({}) = 0
    BY NoVotes
  <2> QED BY <2>1, <2>2 DEF Tallied, n
<1>3. CASE e.kind = "vote"
  <2>1. n.votes = d.votes \/ n.votes = d.votes \cup {v}
    BY <1>0, <1>3 DEF Indexed
  <2>2. n.releaseVotes = Ayes(n.votes) /\ n.refundVotes = Cardinality(n.votes) - Ayes(n.votes)
    BY <1>0, <1>3 DEF Indexed
  <2>3. IsFiniteSet(n.votes)
    BY <2>1, FS_AddElement
  <2>4. \A w \in n.votes : w.release \in BOOLEAN
    BY <1>1, <2>1
  <2>5. Cardinality(n.votes) - Ayes(n.votes) = Nays(n.votes)
    BY <2>3, <2>4, TwoTallies
  <2> QED BY <2>2, <2>5 DEF Tallied, n
<1>4. CASE e.kind \in {"verdict", "resolved"}
  <2>1. n.votes = d.votes /\ n.releaseVotes = d.releaseVotes /\ n.refundVotes = d.refundVotes
    BY <1>0, <1>4 DEF Indexed
  <2> QED BY <2>1 DEF Tallied, n
<1> QED BY <1>1, <1>2, <1>3, <1>4 DEF Kinds, n

(* indexDisputeEvent, applied to the event after the first i and to a row   *)
(* that shows some of these, gives a row that shows it as well.             *)
LEMMA IndexShows ==
  ASSUME NEW ev \in Seq(Events), Ordered(ev), NEW i \in Nat, i < Len(ev),
         NEW E, E \subseteq First(ev, i), NEW d \in Rows, d.votes \subseteq VotesOf(Image(ev)),
         Shows(E, d), i > 0 => d.phase # "none"
  PROVE  Shows(E \cup {ev[i + 1]}, IndexDisputeEvent(d, ev[i + 1]))
<1>0. PICK e : e = ev[i + 1]
  OBVIOUS
<1> DEFINE n == IndexDisputeEvent(d, e)
           v == [voter |-> e.voter, release |-> e.release]
<1>1. Len(ev) \in Nat /\ i + 1 \in 1..Len(ev) /\ e \in Events /\ DOMAIN ev = 1..Len(ev)
  BY <1>0
<1>2. \A f \in E : Before(f, e)
  <2>1. \A j \in 1..i : j \in 1..Len(ev) /\ j < i + 1
    BY <1>1
  <2> QED BY <1>0, <1>1, <2>1 DEF First, Ordered
<1>3. e.kind = "raised" => E = {}
  BY <1>2 DEF Before
<1>4. e.kind # "raised" => d.phase # "none"
  BY <1>0, <1>1 DEF Ordered
<1>5. VotesOf(E \cup {e}) \subseteq VotesOf(E) \cup {v} /\ (e.kind # "vote" => VotesOf(E \cup {e}) = VotesOf(E))
  BY DEF VotesOf
<1>6. /\ VotesOf(E) \subseteq d.votes
      /\ Has(E, "raised") => d.phase # "none"
      /\ Has(E, "vote") => d.phase \notin {"none", "open"}
      /\ Has(E, "verdict") => d.phase \in {"verdict", "resolved"} /\ d.outcome # "none"
      /\ Has(E, "resolved") => d.phase = "resolved"
  BY DEF Shows
<1>11. Indexed(d, e, n)
  BY <1>1, IndexFields
<1> HIDE DEF n
<1>7. CASE e.kind = "raised"
  <2>1. n.phase = "open" /\ n.votes = {}
    <3>1. n = Opened
      BY <1>7, <1>11 DEF Indexed
    <3> QED BY <3>1 DEF Opened, NoRow
  <2>2. VotesOf(E \cup {e}) = {}
    BY <1>3, <1>5, <1>7 DEF VotesOf
  <2>3. Shows(E \cup {e}, n)
    BY <1>3, <1>7, <2>1, <2>2 DEF Shows, Has
  <2> QED BY <1>0, <2>3 DEF n
<1>8. CASE e.kind = "vote"
  <2>1. /\ n.votes = IF \E w \in d.votes : w.voter = e.voter THEN d.votes ELSE d.votes \cup {v}
        /\ n.phase = (IF d.phase = "open" THEN "arbitration" ELSE d.phase)
    BY <1>8, <1>11 DEF Indexed
  <2>2. ASSUME NEW w \in d.votes, w.voter = e.voter PROVE w = v
    <3>1. PICK f \in Image(ev) : f.kind = "vote" /\ w = [voter |-> f.voter, release |-> f.release]
      BY DEF VotesOf
    <3>2. PICK k \in 1..Len(ev) : f = ev[k]
      BY <1>1, <3>1 DEF Image
    <3>3. f.voter = e.voter
      BY <2>2, <3>1
    <3>4. ~(k < i + 1) /\ ~(i + 1 < k)
      BY <1>0, <1>1, <1>8, <3>1, <3>2, <3>3 DEF Ordered, Before
    <3>5. k = i + 1
      BY <1>1, <3>2, <3>4
    <3> QED BY <1>0, <3>1, <3>2, <3>5
  <2>3. v \in n.votes /\ d.votes \subseteq n.votes
    BY <2>1, <2>2
  <2>4. VotesOf(E \cup {e}) \subseteq n.votes
    BY <1>5, <1>6, <2>3
  <2>5. n.phase \notin {"none", "open"}
    BY <1>4, <1>8, <2>1
  <2>6. ~Has(E \cup {e}, "verdict") /\ ~Has(E \cup {e}, "resolved")
    BY <1>2, <1>8 DEF Has, Before
  <2>7. Shows(E \cup {e}, n)
    BY <2>4, <2>5, <2>6 DEF Shows
  <2> QED BY <1>0, <2>7 DEF n
<1>9. CASE e.kind \in {"verdict", "resolved"}
  <2>1. n.votes = d.votes /\ n.phase = e.kind /\ n.outcome \in {"release", "refund"}
    BY <1>9, <1>11 DEF Indexed, OutcomeOf
  <2>2. e.kind = "verdict" => ~Has(E \cup {e}, "resolved")
    BY <1>2 DEF Has, Before
  <2>3. VotesOf(E \cup {e}) \subseteq n.votes
    BY <1>5, <1>6, <1>9, <2>1
  <2>4. Shows(E \cup {e}, n)
    BY <1>9, <2>1, <2>2, <2>3 DEF Shows
  <2> QED BY <1>0, <2>4 DEF n
<1>10. e.kind \in Kinds
  BY <1>1 DEF Events
<1> QED BY <1>7, <1>8, <1>9, <1>10 DEF Kinds

(* A poll that has dispute_raised behind it, or whose process has, finds a  *)
(* row.                                                                     *)
LEMMA RowIsThere ==
  ASSUME NEW ev \in Seq(Events), Ordered(ev), NEW seen, NEW d, Known(ev, seen, d), NEW p \in Polls,
         NEW st, NEW s \in 0..Len(ev), NEW i \in 0..Len(ev), NEW l \in 0..Len(ev),
         Reached(ev, seen, d, p, st, s, i, l), i > 0
  PROVE  d.phase # "none"
<1>1. Len(ev) \in Nat /\ Len(ev) > 0 /\ 1 \in 1..Len(ev) /\ 1 \in 1..i /\ s \in Nat /\ i \in Nat
  OBVIOUS
<1>2. CASE s >= 1
  <2>1. ev[1].ledger <= seen[p]
    BY <1>1, <1>2 DEF Reached
  <2> QED BY <1>1, <2>1 DEF Known
<1>3. CASE s = 0
  <2>1. \A j \in 1..s : FALSE
    BY <1>3
  <2>2. Shows(First(ev, i), d)
    BY <2>1 DEF Reached, ReadByAll
  <2>3. ev[1] \in First(ev, i) /\ ev[1].kind = "raised"
    BY <1>1 DEF First, Ordered
  <2> QED BY <2>2, <2>3 DEF Shows, Has
<1> QED BY <1>1, <1>2, <1>3

LEMMA OnlyOne ==
  ASSUME NEW ev, NEW seen, NEW d, NEW state, NEW p \in Polls,
         \A r \in Polls : r # p => state[r].at = "idle",
         Tallied(d), Floor(ev, seen, d), Known(ev, seen, d), Position(ev, seen, d, p, state[p])
  PROVE  Faithful(ev, seen, d, state)
<1>1. \A r \in Polls : Position(ev, seen, d, r, state[r])
  BY DEF Position
<1> QED BY <1>1 DEF Faithful, Alone

(* Cursors fall, or rise over ledgers without events, and polls end. *)
NoneRead(ev, seen, new) ==
    \A p \in Polls : \A j \in 1..Len(ev) : ev[j].ledger <= new[p] => ev[j].ledger <= seen[p]
EndedOrSame(ev, seen, new, state, left) ==
    \A p \in Polls :
       \/ left[p].at = "idle"
       \/ /\ left[p] = state[p]
          /\ \A j \in 1..Len(ev) : ev[j].ledger <= new[p] <=> ev[j].ledger <= seen[p]

LEMMA CursorsMove ==
  ASSUME NEW ev \in Seq(Events), NEW seen, NEW d, NEW state, Faithful(ev, seen, d, state),
         NEW new, NEW left, NoneRead(ev, seen, new), EndedOrSame(ev, seen, new, state, left)
  PROVE  Faithful(ev, new, d, left)
<1> USE DEF NoneRead, EndedOrSame
<1>1. Len(ev) \in Nat
  OBVIOUS
<1>2. ASSUME NEW m \in 0..Len(ev), ReadByAll(ev, new, m) PROVE ReadByAll(ev, seen, m)
  <2>1. \A j \in 1..m : j \in 1..Len(ev)
    BY <1>1
  <2> QED BY <1>2, <2>1 DEF ReadByAll
<1>3. Floor(ev, new, d)
  BY <1>2 DEF Faithful, Floor
<1>4. Known(ev, new, d)
  <2>1. Len(ev) > 0 => 1 \in 1..Len(ev)
    BY <1>1
  <2> QED BY <2>1 DEF Faithful, Known
<1>5. ASSUME NEW p \in Polls PROVE Position(ev, new, d, p, left[p])
  <2>1. CASE left[p].at = "idle"
    BY <2>1 DEF Position
  <2>2. CASE /\ left[p] = state[p]
             /\ \A j \in 1..Len(ev) : ev[j].ledger <= new[p] <=> ev[j].ledger <= seen[p]
    <3>1. Position(ev, seen, d, p, left[p])
      BY <2>2 DEF Faithful
    <3>2. ASSUME NEW s \in 0..Len(ev), NEW i \in 0..Len(ev), NEW l \in 0..Len(ev),
                 Reached(ev, seen, d, p, left[p], s, i, l)
          PROVE  Reached(ev, new, d, p, left[p], s, i, l)
      BY <1>2, <2>2, <3>2 DEF Reached
    <3> QED BY <2>2, <3>1, <3>2 DEF Position
  <2> QED BY <2>1, <2>2
<1>6. Alone(left)
  BY DEF Faithful, Alone
<1> QED BY <1>3, <1>4, <1>5, <1>6 DEF Faithful

(* A poll that has just started has nothing behind it that it has not read. *)
LEMMA FetchReaches ==
  ASSUME NEW ev \in Seq(Events), NEW seen, NEW d, Floor(ev, seen, d), NEW p \in Polls,
         NEW old, Position(ev, seen, d, p, old), old.at = "fetch",
         NEW s \in 0..Len(ev), \A i \in 1..Len(ev) : ev[i].ledger < old.start <=> i <= s,
         NEW st, st.at = "next", st.batch = SubSeq(ev, s + 1, Len(ev))
  PROVE  Position(ev, seen, d, p, st)
<1>1. Len(ev) \in Nat /\ s \in Nat /\ s <= Len(ev) /\ Len(ev) \in 0..Len(ev)
  OBVIOUS
<1>2. PICK n \in Nat : n = Len(ev)
  BY <1>1
<1>3. Len(SubSeq(ev, s + 1, n)) = n - s
  BY <1>1, <1>2
<1>4. \A k \in 1..(n - s) : SubSeq(ev, s + 1, n)[k] = ev[s + k]
  BY <1>1, <1>2
<1>5. \A j \in 1..n : ~(j > n)
  OBVIOUS
<1>6. \A j \in 1..Len(ev) : ev[j].ledger <= seen[p] <=> j <= s
  BY DEF Position
<1>7. Reached(ev, seen, d, p, st, s, s, n)
  BY <1>1, <1>2, <1>3, <1>4, <1>5, <1>6 DEF Reached, Floor
<1> QED BY <1>1, <1>2, <1>7 DEF Position

(* The event that a poll saves next, and the row with it. *)
LEMMA SaveAdvances ==
  ASSUME NEW ev \in Seq(Events), Ordered(ev), NEW seen, NEW d \in Rows,
         d.votes \subseteq VotesOf(Image(ev)), Floor(ev, seen, d), Known(ev, seen, d),
         NEW p \in Polls, NEW old \in PollStates, Position(ev, seen, d, p, old),
         old.at \in {"next", "save"}, old.batch # <<>>, NEW n, n = IndexDisputeEvent(d, Head(old.batch)),
         NEW st \in PollStates, st.at = "next", st.batch = Tail(old.batch), st.latest = old.latest
  PROVE  Floor(ev, seen, n) /\ Known(ev, seen, n) /\ Position(ev, seen, n, p, st)
<1>1. PICK s \in 0..Len(ev), i \in 0..Len(ev), l \in 0..Len(ev) :
             Reached(ev, seen, d, p, old, s, i, l)
  BY DEF Position
<1>2. PICK b \in Seq(Events) : b = old.batch /\ b # <<>>
  BY DEF PollStates
<1>3. /\ Len(ev) \in Nat /\ s \in Nat /\ i \in Nat /\ l \in Nat /\ s <= i /\ i <= l /\ l <= Len(ev)
      /\ Len(b) = l - i /\ \A k \in 1..Len(b) : b[k] = ev[i + k]
  BY <1>1, <1>2 DEF Reached
<1>4. /\ Len(b) \in Nat /\ Len(b) > 0 /\ Head(b) = b[1] /\ Tail(b) \in Seq(Events)
      /\ Len(Tail(b)) = Len(b) - 1 /\ \A k \in 1..Len(Tail(b)) : Tail(b)[k] = b[k + 1]
  BY <1>2
<1>5. i < l /\ i < Len(ev) /\ Head(b) = ev[i + 1] /\ i + 1 \in 0..Len(ev)
  <2>1. 1 \in 1..Len(b)
    BY <1>4
  <2> QED BY <1>3, <1>4, <2>1
<1>6. i > 0 => d.phase # "none"
  BY <1>1, RowIsThere
<1>7. ASSUME NEW E, E \subseteq First(ev, i), Shows(E, d) PROVE Shows(E \cup {ev[i + 1]}, n)
  BY <1>2, <1>3, <1>5, <1>6, <1>7, IndexShows
<1>8. ASSUME NEW m \in 0..Len(ev), ReadByAll(ev, seen, m) PROVE Shows(First(ev, m), n)
  <2>1. m <= s
    <3>1. CASE m = 0
      BY <1>3, <3>1
    <3>2. CASE m # 0
      <4>1. m \in 1..m /\ m \in 1..Len(ev)
        BY <1>3, <3>2
      <4>2. ev[m].ledger <= seen[p]
        BY <1>8, <4>1 DEF ReadByAll
      <4> QED BY <1>1, <4>1, <4>2 DEF Reached
    <3> QED BY <3>1, <3>2
  <2>2. First(ev, m) \subseteq First(ev, i)
    <3>1. \A j \in 1..m : j \in 1..i
      BY <1>3, <2>1
    <3> QED BY <3>1 DEF First
  <2>3. Shows(First(ev, m), d)
    BY <1>8 DEF Floor
  <2>4. Shows(First(ev, m) \cup {ev[i + 1]}, n)
    BY <1>7, <2>2, <2>3
  <2> QED BY <2>4, ShowsLess
<1>9. n.phase # "none"
  <2>1. Shows({}, d)
    BY DEF Shows, Has, VotesOf
  <2>2. Shows({} \cup {ev[i + 1]}, n)
    BY <1>7, <2>1
  <2>3. ev[i + 1] \in Events
    BY <1>3, <1>5
  <2>4. ev[i + 1].kind \in Kinds
    BY <2>3 DEF Events
  <2> QED BY <2>2, <2>4 DEF Shows, Has, Kinds
<1>10. Reached(ev, seen, n, p, st, s, i + 1, l)
  <2>1. s <= i + 1 /\ i + 1 <= l
    BY <1>3, <1>5
  <2>2. Len(st.batch) = l - (i + 1)
    BY <1>2, <1>3, <1>4
  <2>3. ASSUME NEW k \in 1..Len(st.batch) PROVE st.batch[k] = ev[(i + 1) + k]
    <3>1. k + 1 \in 1..Len(b) /\ i + (k + 1) = (i + 1) + k /\ k \in 1..Len(Tail(b))
      BY <1>2, <1>3, <1>4, <2>2, <2>3
    <3>2. Tail(b)[k] = b[k + 1] /\ b[k + 1] = ev[i + (k + 1)]
      BY <1>3, <1>4, <3>1
    <3> QED BY <1>2, <3>1, <3>2
  <2>4. First(ev, i + 1) = First(ev, i) \cup {ev[i + 1]}
    <3>1. \A j : j \in 1..(i + 1) <=> j \in 1..i \/ j = i + 1
      BY <1>3
    <3> QED BY <3>1 DEF First
  <2>5. ReadByAll(ev, seen, s) => Shows(First(ev, i + 1), n)
    <3> SUFFICES ASSUME ReadByAll(ev, seen, s) PROVE Shows(First(ev, i + 1), n)
      OBVIOUS
    <3>1. Shows(First(ev, i), d)
      BY <1>1 DEF Reached
    <3> QED BY <1>7, <2>4, <3>1
  <2> QED BY <1>1, <2>1, <2>2, <2>3, <2>5 DEF Reached
<1> QED BY <1>5, <1>8, <1>9, <1>10 DEF Floor, Known, Position

(* A poll has all its events behind it, and the cursor moves over them. *)
Advanced(seen, new, p, latest) ==
    /\ new[p] \in {seen[p], latest}
    /\ \A r \in Polls : new[r] = seen[r] \/ (seen[r] = seen[p] /\ new[r] = new[p])

LEMMA EndReaches ==
  ASSUME NEW ev \in Seq(Events), Ordered(ev), NEW seen, NEW d, Floor(ev, seen, d), Known(ev, seen, d),
         NEW p \in Polls, NEW old, Position(ev, seen, d, p, old), old.at = "next", old.batch = <<>>,
         NEW new, Advanced(seen, new, p, old.latest), seen \in [Polls -> Nat], old.latest \in Nat
  PROVE  Floor(ev, new, d) /\ Known(ev, new, d)
<1> USE DEF Advanced
<1>1. PICK s \in 0..Len(ev), i \in 0..Len(ev), l \in 0..Len(ev) :
             Reached(ev, seen, d, p, old, s, i, l)
  BY DEF Position
<1>2. Len(ev) \in Nat /\ s \in Nat /\ i \in Nat /\ i = l /\ l <= Len(ev) /\ s <= i
  <2>1. Len(old.batch) = 0
    OBVIOUS
  <2>2. Len(ev) \in Nat /\ s \in Nat /\ i \in Nat /\ l \in Nat /\ l <= Len(ev)
    BY <1>1
  <2>3. s <= i /\ Len(old.batch) = l - i
    BY <1>1 DEF Reached
  <2> QED BY <2>1, <2>2, <2>3
<1>3. \A j \in 1..Len(ev) : ev[j].ledger \in Nat
  <2>1. \A j \in 1..Len(ev) : ev[j] \in Events
    OBVIOUS
  <2> QED BY <2>1 DEF Events
(* What the process of p reads by this poll is behind the poll. *)
<1>4. ASSUME NEW j \in 1..Len(ev), ev[j].ledger <= new[p] PROVE j <= i
  <2>1. CASE new[p] = seen[p]
    BY <1>1, <1>2, <1>4, <2>1 DEF Reached
  <2>2. CASE new[p] = old.latest
    <3>1. ~(ev[j].ledger > old.latest)
      BY <1>3, <1>4, <2>2
    <3>2. ~(j > l)
      BY <1>1, <3>1 DEF Reached
    <3> QED BY <1>2, <3>2
  <2> QED BY <2>1, <2>2
<1>5. ASSUME NEW m \in 0..Len(ev), ReadByAll(ev, new, m) PROVE Shows(First(ev, m), d)
  <2>1. \A j \in 1..m : j \in 1..Len(ev)
    BY <1>2
  <2>2. ASSUME NEW k \in Nat, k <= m, k <= s PROVE ReadByAll(ev, seen, k)
    <3>1. \A j \in 1..k : j \in 1..m /\ j \in 1..Len(ev) /\ j <= s
      BY <1>2, <2>2
    <3>2. \A j \in 1..k : ev[j].ledger <= seen[p]
      BY <1>1, <3>1 DEF Reached
    <3> QED BY <1>5, <3>1, <3>2 DEF ReadByAll
  <2>3. CASE m <= s
    BY <2>2, <2>3 DEF Floor
  <2>4. CASE m > s
    <3>1. Shows(First(ev, i), d)
      BY <1>1, <1>2, <2>2, <2>4 DEF Reached
    <3>2. m \in 1..m /\ m \in 1..Len(ev)
      BY <1>2, <2>4
    <3>3. m <= i
      BY <1>4, <1>5, <3>2 DEF ReadByAll
    <3>4. First(ev, m) \subseteq First(ev, i)
      <4>1. \A j \in 1..m : j \in 1..i
        BY <1>2, <3>3
      <4> QED BY <4>1 DEF First
    <3> QED BY <3>1, <3>4, ShowsLess
  <2> QED BY <1>2, <2>3, <2>4
<1>6. ASSUME NEW r \in Polls, Len(ev) > 0, ev[1].ledger <= new[r] PROVE d.phase # "none"
  <2>1. CASE new[r] = seen[r]
    BY <1>6, <2>1 DEF Known
  <2>2. CASE new[r] = new[p]
    <3>1. 1 \in 1..Len(ev)
      BY <1>2, <1>6
    <3>2. i > 0
      BY <1>2, <1>4, <1>6, <2>2, <3>1
    <3> QED BY <1>1, <3>2, RowIsThere
  <2> QED BY <2>1, <2>2
<1> QED BY <1>5, <1>6 DEF Floor, Known

(* New events are in ledgers that no process has read. *)
LEMMA ChainGrows ==
  ASSUME NEW ev \in Seq(Events), NEW more \in Seq(Events), NEW seen \in [Polls -> Nat], NEW d,
         NEW state \in [Polls -> PollStates], Faithful(ev, seen, d, state),
         NEW h \in Nat, \A e \in Image(more) : e.ledger > h,
         \A p \in Polls : seen[p] <= h /\ state[p].start <= h /\ state[p].latest <= h
  PROVE  Faithful(ev \o more, seen, d, state)
<1> DEFINE all == ev \o more
<1>1. PICK n \in Nat, k \in Nat : n = Len(ev) /\ k = Len(more)
  OBVIOUS
<1>2. /\ Len(all) = n + k /\ \A j \in 1..n : all[j] = ev[j]
      /\ \A j \in 1..k : all[n + j] = more[j]
  BY <1>1
<1>3. \A j \in 1..k : more[j].ledger > h /\ more[j].ledger \in Nat
  <2>1. \A j \in 1..k : more[j] \in Image(more) /\ more[j] \in Events
    BY <1>1 DEF Image
  <2> QED BY <2>1 DEF Events
<1> HIDE DEF all
<1>4. ASSUME NEW j \in 1..Len(all), j > n PROVE all[j].ledger > h /\ all[j].ledger \in Nat
  <2>1. j - n \in 1..k /\ n + (j - n) = j
    BY <1>1, <1>2, <1>4
  <2> QED BY <1>2, <1>3, <2>1
<1>5. ASSUME NEW m \in 0..n PROVE /\ First(all, m) = First(ev, m)
                                  /\ ReadByAll(all, seen, m) <=> ReadByAll(ev, seen, m)
  <2>1. \A j \in 1..m : all[j] = ev[j]
    BY <1>1, <1>2
  <2> QED BY <2>1 DEF First, ReadByAll
<1>6. ASSUME NEW m \in 0..Len(all), ReadByAll(all, seen, m) PROVE m \in 0..n
  <2>1. SUFFICES ASSUME m > n PROVE FALSE
    BY <1>1, <1>2
  <2>2. m \in 1..m /\ m \in 1..Len(all)
    BY <1>1, <1>2, <2>1
  <2>3. PICK p \in Polls : TRUE
    BY ListenerAssumption
  <2>4. all[m].ledger <= seen[p] /\ seen[p] <= h /\ seen[p] \in Nat
    BY <1>6, <2>2 DEF ReadByAll
  <2> QED BY <1>4, <2>1, <2>2, <2>4
<1>7. Floor(all, seen, d)
  BY <1>1, <1>5, <1>6 DEF Faithful, Floor
<1>8. Known(all, seen, d)
  <2>1. ASSUME NEW p \in Polls, Len(all) > 0, all[1].ledger <= seen[p] PROVE d.phase # "none"
    <3>1. 1 \in 1..Len(all) /\ seen[p] \in Nat /\ seen[p] <= h
      BY <1>2, <2>1
    <3>2. ~(1 > n)
      BY <1>4, <2>1, <3>1
    <3> QED BY <1>1, <1>2, <2>1, <3>2 DEF Faithful, Known
  <2> QED BY <2>1 DEF Known
<1>9. ASSUME NEW p \in Polls PROVE Position(all, seen, d, p, state[p])
  <2>1. PICK st \in PollStates : st = state[p]
    OBVIOUS
  <2>2. seen[p] \in Nat /\ seen[p] <= h /\ st.start \in Nat /\ st.start <= h /\ st.latest \in Nat
        /\ st.latest <= h /\ Position(ev, seen, d, p, st)
    BY <2>1 DEF PollStates, Faithful
  <2>3. ASSUME NEW j \in 1..Len(all), j > n
        PROVE  ~(all[j].ledger < st.start) /\ ~(all[j].ledger <= seen[p]) /\ all[j].ledger > st.latest
    <3>1. all[j].ledger > h /\ all[j].ledger \in Nat
      BY <1>4, <2>3
    <3> QED BY <2>2, <3>1
  <2>4. \A j \in 1..Len(all) : ~(j > n) => j \in 1..n /\ all[j] = ev[j]
    BY <1>1, <1>2
  <2>5. ASSUME st.at = "fetch"
        PROVE  \A j \in 1..Len(all) : all[j].ledger < st.start <=> all[j].ledger <= seen[p]
    BY <1>1, <2>2, <2>3, <2>4, <2>5 DEF Position
  <2>6. ASSUME st.at \in {"next", "save"}
        PROVE  \E s, i, l \in 0..Len(all) : Reached(all, seen, d, p, st, s, i, l)
    <3>1. PICK s \in 0..n, i \in 0..n, l \in 0..n : Reached(ev, seen, d, p, st, s, i, l)
      BY <1>1, <2>2, <2>6 DEF Position
    <3>2. s \in 0..Len(all) /\ i \in 0..Len(all) /\ l \in 0..Len(all)
      BY <1>1, <1>2
    <3>3. Len(st.batch) = l - i /\ s <= i /\ i <= l
      BY <3>1 DEF Reached
    <3>4. \A x \in 1..Len(st.batch) : st.batch[x] = all[i + x]
      <4>1. \A x \in 1..Len(st.batch) : i + x \in 1..n
        BY <1>1, <3>3
      <4> QED BY <1>2, <3>1, <4>1 DEF Reached
    <3>5. \A j \in 1..Len(all) : all[j].ledger <= seen[p] <=> j <= s
      <4>1. \A j \in 1..Len(all) : j > n => ~(j <= s)
        BY <1>1
      <4> QED BY <1>1, <2>3, <2>4, <3>1, <4>1 DEF Reached
    <3>6. \A j \in 1..Len(all) : j > l => all[j].ledger > st.latest
      BY <1>1, <2>3, <2>4, <3>1 DEF Reached
    <3>7. ReadByAll(all, seen, s) => Shows(First(all, i), d)
      BY <1>5, <3>1 DEF Reached
    <3>8. Reached(all, seen, d, p, st, s, i, l)
      BY <3>3, <3>4, <3>5, <3>6, <3>7 DEF Reached
    <3> QED BY <3>2, <3>8
  <2> QED BY <2>1, <2>2, <2>5, <2>6 DEF Position
<1> QED BY <1>7, <1>8, <1>9 DEF Faithful, all

(* The invariant in the next state, written with its constant operators. *)
LEMMA NextReplay ==
  /\ Ordered(events)' <=> Ordered(events')
  /\ Faithful(events, Seen, row, poll)' <=> Faithful(events', Seen', row', poll')
<1> USE DEF Ordered, Before, Faithful, Alone, Tallied, Ayes, Nays, Cardinality, Floor, ReadByAll,
            Shows, First, VotesOf, Has, Known, Position, Reached
<1> QED OBVIOUS

LEMMA InitReplay == ASSUME ListenerInit PROVE ReplayInv
<1>1. events = <<>> /\ Len(events) = 0 /\ row = NoRow /\ \A p \in Polls : poll[p] = Idle
  BY DEF ListenerInit
<1>2. Ordered(events)
  BY <1>1 DEF Ordered
<1>3. Behind
  <2>1. owner \in [Polls -> Processes] /\ head = 1
    BY ListenerAssumption DEF ListenerInit
  <2>2. \A q \in Processes : cursor[q] = 0
    BY DEF ListenerInit
  <2> QED BY <1>1, <2>1, <2>2 DEF Behind, Idle
<1>4. Faithful(events, Seen, row, poll)
  <2>1. Tallied(row)
    <3>1. Ayes({}) = 0 /\ Nays({}) = 0
      BY NoVotes
    <3> QED BY <1>1, <3>1 DEF Tallied, NoRow
  <2>2. Floor(events, Seen, row)
    <3>1. \A m \in 0..Len(events) : First(events, m) = {}
      BY <1>1 DEF First
    <3>2. Shows({}, row)
      BY DEF Shows, Has, VotesOf
    <3> QED BY <3>1, <3>2 DEF Floor
  <2>3. Known(events, Seen, row)
    BY <1>1 DEF Known
  <2>4. \A p \in Polls : poll[p].at = "idle"
    BY <1>1 DEF Idle
  <2> QED BY <2>1, <2>2, <2>3, <2>4 DEF Faithful, Alone, Position
<1> QED BY <1>2, <1>3, <1>4 DEF ReplayInv

(* What the invariants of the projection say about the current state. *)
LEMMA ReplayFacts ==
  ASSUME ListenerInv
  PROVE  /\ head \in Nat /\ events \in Seq(Events) /\ row \in Rows /\ poll \in [Polls -> PollStates]
         /\ owner \in [Polls -> Processes] /\ cursor \in [Processes -> Nat] /\ Seen \in [Polls -> Nat]
         /\ \A p \in Polls : Seen[p] = cursor[owner[p]]
         /\ row.votes \subseteq VotesOf(Image(events)) /\ IsFiniteSet(row.votes)
<1>1. /\ head \in Nat /\ events \in Seq(Events) /\ row \in Rows /\ poll \in [Polls -> PollStates]
      /\ owner \in [Polls -> Processes] /\ cursor \in [Processes -> Nat]
  BY DEF ListenerInv, ListenerTypes
<1>2. Seen \in [Polls -> Nat] /\ \A p \in Polls : Seen[p] = cursor[owner[p]]
  BY <1>1 DEF Seen
<1>3. row.votes \subseteq VotesOf(Image(events))
  BY DEF ListenerInv, Shown, VotesShown, Chain
<1>4. IsFiniteSet(VotesOf(Image(events)))
  <2>1. IsFiniteSet(Image(events))
    BY <1>1, ChainFinite DEF Chain
  <2> QED BY <2>1, VotesFinite
<1>5. IsFiniteSet(row.votes)
  BY <1>3, <1>4, FS_Subset
<1> QED BY <1>1, <1>2, <1>3, <1>5

(* Events added to ordered ones, all of later ledgers. *)
LEMMA OrderedConcat ==
  ASSUME NEW s \in Seq(Events), NEW t \in Seq(Events), Ordered(s),
         \A i, j \in 1..Len(t) : i < j => Before(t[i], t[j]),
         \A e \in Image(s), f \in Image(t) : Before(e, f),
         Len(s) = 0 /\ Len(t) > 0 => t[1].kind = "raised"
  PROVE  Ordered(s \o t)
<1> DEFINE u == s \o t
<1>1. PICK m \in Nat, n \in Nat : m = Len(s) /\ n = Len(t)
  OBVIOUS
<1>2. /\ Len(u) = m + n /\ \A i \in 1..m : u[i] = s[i]
      /\ \A i \in 1..n : u[m + i] = t[i]
  BY <1>1
<1>3. \A i \in 1..m : s[i] \in Image(s)
  BY <1>1 DEF Image
<1>4. \A i \in 1..n : t[i] \in Image(t)
  BY <1>1 DEF Image
<1> HIDE DEF u
<1>5. \A i \in 1..(m + n) : i \in 1..m \/ i - m \in 1..n
  BY <1>1
<1>6. ASSUME NEW i \in 1..(m + n), i - m \in 1..n PROVE u[i] = t[i - m]
  <2>1. m + (i - m) = i
    OBVIOUS
  <2> QED BY <1>2, <1>6, <2>1
<1>7. ASSUME NEW i \in 1..(m + n), NEW j \in 1..(m + n), i < j PROVE Before(u[i], u[j])
  <2>1. CASE i \in 1..m /\ j \in 1..m
    BY <1>1, <1>2, <1>7, <2>1 DEF Ordered
  <2>2. CASE i \in 1..m /\ j - m \in 1..n
    BY <1>2, <1>3, <1>4, <1>6, <2>2
  <2>3. CASE i - m \in 1..n /\ j - m \in 1..n
    <3>1. i - m < j - m
      BY <1>7
    <3> QED BY <1>1, <1>6, <2>3, <3>1
  <2>4. CASE i - m \in 1..n /\ j \in 1..m
    BY <1>1, <1>7, <2>4
  <2> QED BY <1>5, <2>1, <2>2, <2>3, <2>4
<1>8. ASSUME Len(u) > 0 PROVE u[1].kind = "raised"
  <2>1. CASE m > 0
    <3>1. 1 \in 1..m
      BY <2>1
    <3> QED BY <1>1, <1>2, <2>1, <3>1 DEF Ordered
  <2>2. CASE m = 0
    <3>1. 1 \in 1..n /\ m + 1 = 1 /\ n > 0
      BY <1>2, <1>8, <2>2
    <3> QED BY <1>1, <1>2, <2>2, <3>1
  <2> QED BY <2>1, <2>2
<1> QED BY <1>2, <1>7, <1>8 DEF Ordered, u

(* A step of the chain that adds events of the next ledger. *)
LEMMA EmitReplays ==
  ASSUME ListenerInv, ReplayInv, NEW new \in Seq(Events), Emit(new),
         \A e \in Image(new) : e.ledger = head + 1,
         \A i, j \in 1..Len(new) : i < j => Before(new[i], new[j]),
         \A e \in Image(events), f \in Image(new) : e.ledger <= head => Before(e, f),
         Len(events) = 0 /\ Len(new) > 0 => new[1].kind = "raised"
  PROVE  ReplayInv'
<1>1. /\ head' = head + 1 /\ events' = events \o new
      /\ UNCHANGED <<row, poll, cursor, owner, damaged>>
  BY DEF Emit
<1>2. /\ head \in Nat /\ events \in Seq(Events) /\ poll \in [Polls -> PollStates]
      /\ Seen \in [Polls -> Nat] /\ cursor \in [Processes -> Nat] /\ owner \in [Polls -> Processes]
      /\ \A p \in Polls : Seen[p] = cursor[owner[p]]
  BY ReplayFacts
<1>3. \A e \in Image(events) : e.ledger <= head
  BY <1>2 DEF ReplayInv, Behind, Image
<1>4. Ordered(events \o new)
  BY <1>2, <1>3, OrderedConcat DEF ReplayInv
<1>5. Behind'
  <2>1. ASSUME NEW i \in 1..Len(events \o new) PROVE (events \o new)[i].ledger <= head + 1
    <3>1. (events \o new)[i] \in Image(events \o new)
      <4>1. events \o new \in Seq(Events)
        BY <1>2
      <4> QED BY <4>1 DEF Image
    <3>2. PICK e \in Image(events) \cup Image(new) : e = (events \o new)[i]
      BY <1>2, <3>1, ImageOfConcat
    <3>3. CASE e \in Image(events)
      <4>1. e \in Events
        BY <1>2, <3>3 DEF Image
      <4>2. e.ledger \in Nat /\ e.ledger <= head
        BY <1>3, <3>3, <4>1 DEF Events
      <4> QED BY <1>2, <3>2, <4>2
    <3>4. CASE e \in Image(new)
      BY <1>2, <3>2, <3>4
    <3> QED BY <3>2, <3>3, <3>4
  <2>2. ASSUME NEW q \in Processes PROVE cursor[q] <= head + 1
    <3>1. cursor[q] \in Nat /\ cursor[q] <= head
      BY <1>2 DEF ReplayInv, Behind
    <3> QED BY <1>2, <3>1
  <2>3. ASSUME NEW p \in Polls PROVE poll[p].start <= head + 1 /\ poll[p].latest <= head + 1
    <3>1. poll[p].start \in Nat /\ poll[p].latest \in Nat
      BY <1>2 DEF PollStates
    <3>2. poll[p].start <= head /\ poll[p].latest <= head
      BY DEF ReplayInv, Behind
    <3> QED BY <1>2, <3>1, <3>2
  <2> QED BY <1>1, <2>1, <2>2, <2>3 DEF Behind
<1>6. Faithful(events, Seen, row, poll) => Faithful(events \o new, Seen, row, poll)
  <2>1. \A p \in Polls : Seen[p] <= head /\ poll[p].start <= head /\ poll[p].latest <= head
    BY <1>2 DEF ReplayInv, Behind
  <2>2. \A e \in Image(new) : e.ledger > head
    BY <1>2
  <2> QED BY <1>2, <2>1, <2>2, ChainGrows
<1>7. Seen' = Seen
  BY <1>1 DEF Seen
<1>8. damaged' \/ Faithful(events', Seen', row', poll')
  BY <1>1, <1>6, <1>7 DEF ReplayInv
<1> QED BY <1>1, <1>4, <1>5, <1>8, NextReplay DEF ReplayInv

(* The entry points of the contract emit each event in its place. *)
LEMMA DisputeReplays ==
  ASSUME ListenerInv, ReplayInv,
         \/ DisputeRaised \/ DisputeFinalized \/ DisputeResolved
         \/ \E a \in PoolMembers, release \in BOOLEAN : VoteCast(a, release)
  PROVE  ReplayInv'
<1>1. head \in Nat /\ events \in Seq(Events) /\ Consistent(Chain)
  BY DEF ListenerInv, ListenerTypes
<1>2. Range(events) = Chain /\ Chain \in SUBSET Events
  BY <1>1, ChainFinite
<1>3. \A k : Happened(k) <=> Has(Chain, k)
  BY <1>2 DEF Happened, Has
<1>4. ASSUME NEW k \in Kinds, NEW v \in Voters, NEW r \in BOOLEAN
      PROVE  /\ Event(k, v, r) \in Events /\ Event(k, v, r).ledger = head + 1
             /\ Event(k, v, r).kind = k /\ Event(k, v, r).voter = v
  BY <1>1 DEF Event, Events
<1>5. "party" \in Voters /\ PoolMembers \subseteq Voters /\ Majority \in BOOLEAN
  BY DEF Voters, Majority
<1>6. /\ Chain = Image(events) /\ \A e \in Chain : e.ledger <= head => e.ledger <= head + 1
      /\ \A e \in Chain : e.kind \in Kinds
  <2>1. \A e \in Chain : e.ledger \in Nat /\ e.kind \in Kinds
    BY <1>2 DEF Events
  <2> QED BY <1>1, <2>1 DEF Chain
<1>7. Has(Chain, "raised") => Len(events) # 0
  <2>1. Len(events) = 0 => Chain = {}
    BY <1>1 DEF Chain, Image
  <2> QED BY <2>1 DEF Has
<1>8. ~Has(Chain, "raised") => Chain = {}
  <2>1. ASSUME NEW e \in Chain PROVE Has(Chain, "raised")
    <3>1. Len(events) \in Nat /\ Len(events) # 0
      <4>1. PICK i \in DOMAIN events : e = events[i]
        BY DEF Chain, Image
      <4> QED BY <1>1, <4>1
    <3>2. 1 \in 1..Len(events)
      BY <3>1
    <3>3. events[1] \in Chain /\ events[1].kind = "raised"
      BY <1>1, <3>1, <3>2 DEF Chain, Image, ReplayInv, Ordered
    <3> QED BY <3>3 DEF Has
  <2> QED BY <2>1
(* One event, or two. *)
<1>9. ASSUME NEW e \in Events, e.ledger = head + 1, Emit(<<e>>),
             \A f \in Chain : f.ledger <= e.ledger => Before(f, e),
             Has(Chain, "raised") \/ e.kind = "raised"
      PROVE  ReplayInv'
  <2>1. /\ <<e>> \in Seq(Events) /\ Image(<<e>>) = {e} /\ Len(<<e>>) = 1
        /\ <<e>>[1] = e /\ \A i, j \in 1..1 : ~(i < j)
    BY ImageOfTuples
  <2>2. \A d \in Image(events), f \in Image(<<e>>) : d.ledger <= head => Before(d, f)
    BY <1>6, <1>9, <2>1
  <2>3. /\ \A f \in Image(<<e>>) : f.ledger = head + 1
        /\ \A i, j \in 1..Len(<<e>>) : i < j => Before(<<e>>[i], <<e>>[j])
    BY <1>9, <2>1
  <2>4. Len(events) = 0 /\ Len(<<e>>) > 0 => <<e>>[1].kind = "raised"
    BY <1>7, <1>9, <2>1
  <2>5. PICK u \in Seq(Events) : u = <<e>>
    BY <2>1
  <2> QED BY <1>9, <2>2, <2>3, <2>4, <2>5, EmitReplays
<1>10. ASSUME NEW u \in Seq(Events), NEW e \in Events, NEW f \in Events, Image(u) = {e, f},
              Len(u) = 2, u[1] = e, u[2] = f, e.ledger = head + 1, f.ledger = head + 1,
              Emit(u), Before(e, f), Has(Chain, "raised"),
              \A g \in Chain : g.ledger <= e.ledger => Before(g, e) /\ Before(g, f)
       PROVE  ReplayInv'
  <2>1. \A i, j \in 1..2 : i < j => i = 1 /\ j = 2
    OBVIOUS
  <2>2. \A i, j \in 1..Len(u) : i < j => Before(u[i], u[j])
    BY <1>10, <2>1
  <2>3. \A d \in Image(events), g \in Image(u) : d.ledger <= head => Before(d, g)
    BY <1>6, <1>10
  <2>4. \A g \in Image(u) : g.ledger = head + 1
    BY <1>10
  <2>5. Len(events) = 0 /\ Len(u) > 0 => u[1].kind = "raised"
    BY <1>7, <1>10
  <2> QED BY <1>10, <2>2, <2>3, <2>4, <2>5, EmitReplays
<1>11. CASE DisputeRaised
  <2>1. PICK e : e = Event("raised", "party", FALSE)
    OBVIOUS
  <2>2. e \in Events /\ e.ledger = head + 1 /\ e.kind = "raised" /\ Emit(<<e>>)
    <3>1. e \in Events /\ e.ledger = head + 1 /\ e.kind = "raised"
      <4>1. PICK r \in BOOLEAN : r = FALSE
        OBVIOUS
      <4>2. "raised" \in Kinds
        BY DEF Kinds
      <4>3. e = Event("raised", "party", r)
        BY <2>1, <4>1
      <4> QED BY <1>4, <1>5, <4>2, <4>3
    <3> QED BY <1>11, <2>1, <3>1 DEF DisputeRaised
  <2>3. Chain = {}
    BY <1>3, <1>8, <1>11 DEF DisputeRaised
  <2> QED BY <1>9, <2>2, <2>3
<1>12. ASSUME NEW a \in PoolMembers, NEW r \in BOOLEAN, VoteCast(a, r)
       PROVE  ReplayInv'
  <2>1. PICK e, f : e = Event("vote", a, r) /\ f = Event("verdict", "party", r)
    OBVIOUS
  <2>2. /\ e \in Events /\ e.ledger = head + 1 /\ e.kind = "vote" /\ e.voter = a
        /\ f \in Events /\ f.ledger = head + 1 /\ f.kind = "verdict"
    BY <1>4, <1>5, <2>1 DEF Kinds
  <2>3. Has(Chain, "raised") /\ ~Has(Chain, "verdict") /\ ~Has(Chain, "resolved")
    BY <1>1, <1>3, <1>12 DEF VoteCast, Consistent
  <2>4. \A v \in VotesOf(Chain) : v.voter # a
    BY <1>2, <1>12 DEF VoteCast, Votes, VotesOf
  <2>5. ASSUME NEW g \in Chain PROVE g.kind \in {"raised", "vote"} /\ (g.kind = "vote" => g.voter # a)
    <3>1. g.kind = "vote" => [voter |-> g.voter, release |-> g.release] \in VotesOf(Chain)
      BY DEF VotesOf
    <3> QED BY <1>6, <2>3, <2>4, <3>1 DEF Has, Kinds
  <2>6. \A g \in Chain : g.ledger <= e.ledger => Before(g, e) /\ Before(g, f)
    BY <2>2, <2>5 DEF Before
  <2>7. Before(e, f)
    BY <1>1, <2>2 DEF Before
  <2>8. Emit(<<e>> \o <<f>>) \/ Emit(<<e>> \o <<>>)
    BY <1>12, <2>1 DEF VoteCast
  <2>9. /\ <<e>> \o <<f>> \in Seq(Events) /\ Image(<<e>> \o <<f>>) = {e, f} /\ <<e>> \o <<>> = <<e>>
        /\ Len(<<e>> \o <<f>>) = 2 /\ (<<e>> \o <<f>>)[1] = e /\ (<<e>> \o <<f>>)[2] = f
    <3>1. \A s \in Seq(Events) : s \o <<>> = s
      OBVIOUS
    <3>2. /\ <<e>> \in Seq(Events) /\ <<f>> \in Seq(Events)
          /\ Image(<<e>>) = {e} /\ Image(<<f>>) = {f}
      BY <2>2, ImageOfTuples
    <3>3. /\ <<e>> \o <<f>> \in Seq(Events) /\ Image(<<e>> \o <<f>>) = {e} \cup {f}
      BY <3>2, ImageOfConcat
    <3>4. Len(<<e>> \o <<f>>) = 2 /\ (<<e>> \o <<f>>)[1] = e /\ (<<e>> \o <<f>>)[2] = f
      <4>1. PICK s \in Seq(Events), t \in Seq(Events) : s = <<e>> /\ t = <<f>>
        BY <3>2
      <4>2. Len(s) = 1 /\ Len(t) = 1 /\ s[1] = e /\ t[1] = f
        BY <4>1
      <4>3. Len(s \o t) = Len(s) + Len(t) /\ \A i \in 1..Len(s) : (s \o t)[i] = s[i]
        OBVIOUS
      <4>4. \A i \in 1..Len(t) : (s \o t)[Len(s) + i] = t[i]
        OBVIOUS
      <4>5. Len(s \o t) = 2 /\ 1 \in 1..Len(s) /\ 1 \in 1..Len(t) /\ Len(s) + 1 = 2
        BY <4>2, <4>3
      <4> QED BY <4>1, <4>2, <4>3, <4>4, <4>5
    <3> QED BY <3>1, <3>2, <3>3, <3>4
  <2>10. CASE Emit(<<e>> \o <<f>>)
    BY <1>10, <2>2, <2>3, <2>6, <2>7, <2>9, <2>10
  <2>11. CASE Emit(<<e>> \o <<>>)
    BY <1>9, <2>2, <2>3, <2>6, <2>9, <2>11
  <2> QED BY <2>8, <2>10, <2>11
(* Before the verdict there are only the dispute and its votes. *)
<1>13. ASSUME ~Has(Chain, "verdict") PROVE \A g \in Chain : g.kind \in {"raised", "vote"}
  <2>1. ~Has(Chain, "resolved")
    BY <1>1, <1>13 DEF Consistent
  <2> QED BY <1>6, <1>13, <2>1 DEF Has, Kinds
<1>14. CASE DisputeFinalized
  <2>1. PICK f : f = Event("verdict", "party", Majority)
    OBVIOUS
  <2>2. f \in Events /\ f.ledger = head + 1 /\ f.kind = "verdict" /\ Emit(<<f>>)
    BY <1>4, <1>5, <1>14, <2>1 DEF DisputeFinalized, Kinds
  <2>3. ~Has(Chain, "verdict") /\ Has(Chain, "raised")
    BY <1>3, <1>14 DEF DisputeFinalized
  <2>4. \A g \in Chain : g.ledger <= f.ledger => Before(g, f)
    BY <1>13, <2>2, <2>3 DEF Before
  <2> QED BY <1>9, <2>2, <2>3, <2>4
<1>15. ASSUME Has(Chain, "raised"), ~Has(Chain, "resolved"), Has(Chain, "verdict"),
              Emit(<<Event("resolved", "party", Verdict)>>)
       PROVE  ReplayInv'
  <2>1. PICK g : g = Event("resolved", "party", Verdict)
    OBVIOUS
  <2>2. PICK c \in Chain : Verdict = c.release
    BY <1>2, <1>15 DEF Has, Verdict
  <2>3. g \in Events /\ g.ledger = head + 1 /\ g.kind = "resolved" /\ Emit(<<g>>)
    <3>1. c.release \in BOOLEAN
      BY <1>2 DEF Events
    <3> QED BY <1>4, <1>5, <1>15, <2>1, <2>2, <3>1 DEF Kinds
  <2>4. \A f \in Chain : f.ledger <= g.ledger => Before(f, g)
    BY <1>15, <2>3 DEF Before, Has
  <2> QED BY <1>9, <1>15, <2>3, <2>4
<1>16. ASSUME Has(Chain, "raised"), ~Has(Chain, "resolved"), ~Has(Chain, "verdict"),
              Emit(<<Event("verdict", "party", Majority), Event("resolved", "party", Majority)>>)
       PROVE  ReplayInv'
  <2>1. PICK f, g : f = Event("verdict", "party", Majority) /\ g = Event("resolved", "party", Majority)
    OBVIOUS
  <2>2. /\ f \in Events /\ f.ledger = head + 1 /\ f.kind = "verdict"
        /\ g \in Events /\ g.ledger = head + 1 /\ g.kind = "resolved" /\ Emit(<<f, g>>)
    BY <1>4, <1>5, <1>16, <2>1 DEF Kinds
  <2>3. \A c \in Chain : c.ledger <= f.ledger => Before(c, f) /\ Before(c, g)
    BY <1>13, <1>16, <2>2 DEF Before
  <2>4. Before(f, g)
    BY <1>1, <2>2 DEF Before
  <2>5. /\ <<f, g>> \in Seq(Events) /\ Image(<<f, g>>) = {f, g} /\ Len(<<f, g>>) = 2
        /\ <<f, g>>[1] = f /\ <<f, g>>[2] = g
    BY <2>2, ImageOfTuples
  <2> QED BY <1>10, <1>16, <2>2, <2>3, <2>4, <2>5
<1>17. CASE DisputeResolved
  BY <1>3, <1>15, <1>16, <1>17 DEF DisputeResolved
<1> QED BY <1>11, <1>12, <1>14, <1>17

(* Steps that add no event. *)
LEMMA QuietReplays ==
  ASSUME ListenerInv, ReplayInv, UNCHANGED <<events, owner>>, head' \in Nat, head <= head',
         \A q \in Processes : cursor'[q] \in Nat /\ cursor'[q] <= head',
         \A p \in Polls : poll'[p].start <= head' /\ poll'[p].latest <= head',
         damaged' \/ Faithful(events, Seen', row', poll')
  PROVE  ReplayInv'
<1>1. head \in Nat /\ events \in Seq(Events)
  BY ReplayFacts
<1>2. ASSUME NEW i \in 1..Len(events) PROVE events[i].ledger <= head'
  <2>1. events[i] \in Events
    BY <1>1
  <2>2. events[i].ledger \in Nat /\ events[i].ledger <= head
    BY <2>1 DEF Events, ReplayInv, Behind
  <2> QED BY <1>1, <2>2
<1>3. Behind'
  BY <1>2 DEF Behind
<1> QED BY <1>3, NextReplay DEF ReplayInv

LEMMA NothingBetween ==
  ASSUME ListenerInv, NEW low, NEW high, ~Between(low, high)
  PROVE  \A j \in 1..Len(events) : events[j].ledger <= high => ~(events[j].ledger > low)
<1>1. events \in Seq(Events) /\ DOMAIN events = 1..Len(events)
  BY ReplayFacts
<1> QED BY <1>1 DEF Between

(* A cursor that is set without reading passes no event, or it is damage. *)
LEMMA SetCursorReplays ==
  ASSUME ListenerInv, ReplayInv, UNCHANGED <<head, events, owner, row>>, NEW q \in Processes,
         NEW c \in Nat, c <= head, cursor' = [cursor EXCEPT ![q] = c],
         damaged' = (damaged \/ Between(cursor[q], c)),
         \A p \in Polls : \/ poll'[p] = Idle
                          \/ poll'[p] = poll[p] /\ (owner[p] = q => cursor[q] <= c)
  PROVE  ReplayInv'
<1>1. /\ head \in Nat /\ events \in Seq(Events) /\ poll \in [Polls -> PollStates]
      /\ owner \in [Polls -> Processes] /\ cursor \in [Processes -> Nat]
      /\ Seen \in [Polls -> Nat] /\ \A p \in Polls : Seen[p] = cursor[owner[p]]
  BY ReplayFacts
<1>2. \A p \in Polls : Seen'[p] = IF owner[p] = q THEN c ELSE Seen[p]
  BY <1>1 DEF Seen
<1>3. \A r \in Processes : cursor'[r] \in Nat /\ cursor'[r] <= head'
  <2>1. \A r \in Processes : cursor[r] <= head
    BY DEF ReplayInv, Behind
  <2> QED BY <1>1, <2>1
<1>4. \A p \in Polls : poll'[p].start <= head' /\ poll'[p].latest <= head'
  <2>1. Idle.start = 0 /\ Idle.latest = 0
    BY DEF Idle
  <2>2. \A p \in Polls : poll[p].start <= head /\ poll[p].latest <= head
    BY DEF ReplayInv, Behind
  <2>3. ASSUME NEW p \in Polls, poll'[p] = Idle PROVE poll'[p].start <= head /\ poll'[p].latest <= head
    BY <1>1, <2>1, <2>3
  <2>4. ASSUME NEW p \in Polls, poll'[p] = poll[p] PROVE poll'[p].start <= head /\ poll'[p].latest <= head
    BY <2>2, <2>4
  <2> QED BY <2>3, <2>4
<1>5. ASSUME ~damaged' PROVE Faithful(events, Seen', row', poll')
  <2>1. Faithful(events, Seen, row, poll) /\ ~Between(cursor[q], c)
    BY <1>5 DEF ReplayInv
  <2>2. \A j \in 1..Len(events) : events[j].ledger \in Nat
    <3>1. \A j \in 1..Len(events) : events[j] \in Events
      BY <1>1
    <3> QED BY <3>1 DEF Events
  <2>3. cursor[q] \in Nat
    BY <1>1
  <2>4. ASSUME NEW j \in 1..Len(events), events[j].ledger <= c PROVE events[j].ledger <= cursor[q]
    BY <2>1, <2>2, <2>3, <2>4, NothingBetween
  <2>5. ASSUME NEW j \in 1..Len(events), events[j].ledger <= cursor[q], cursor[q] <= c
        PROVE  events[j].ledger <= c
    BY <2>2, <2>3, <2>5
  <2>6. \A p \in Polls : \A j \in 1..Len(events) :
           events[j].ledger <= Seen'[p] => events[j].ledger <= Seen[p]
    BY <1>1, <1>2, <2>4
  <2>7. \A p \in Polls : owner[p] # q \/ cursor[q] <= c =>
           \A j \in 1..Len(events) : events[j].ledger <= Seen[p] => events[j].ledger <= Seen'[p]
    BY <1>1, <1>2, <2>5
  <2>8. \A p \in Polls :
            \/ poll'[p].at = "idle"
            \/ /\ poll'[p] = poll[p]
               /\ \A j \in 1..Len(events) : events[j].ledger <= Seen'[p] <=> events[j].ledger <= Seen[p]
    BY <2>6, <2>7 DEF Idle
  <2>9. PICK s, t : s = Seen' /\ t = poll'
    OBVIOUS
  <2>10. NoneRead(events, Seen, s) /\ EndedOrSame(events, Seen, s, poll, t)
    BY <2>6, <2>8, <2>9 DEF NoneRead, EndedOrSame
  <2>11. Faithful(events, s, row, t)
    BY <1>1, <2>1, <2>10, CursorsMove
  <2> QED BY <2>9, <2>11
<1> QED BY <1>1, <1>3, <1>4, <1>5, QuietReplays

LEMMA BatchParts ==
  ASSUME NEW b \in Seq(Events), b # <<>>
  PROVE  /\ Head(b) = b[1] /\ Head(b) \in Events /\ Tail(b) \in Seq(Events)
         /\ Len(b) \in Nat /\ Len(b) > 0
<1>1. Head(b) = b[1] /\ Len(b) \in Nat /\ Len(b) > 0 /\ 1 \in 1..Len(b)
  OBVIOUS
<1>2. Head(b) \in Events
  BY <1>1
<1>3. Tail(b) \in Seq(Events)
  OBVIOUS
<1> QED BY <1>1, <1>2, <1>3

LEMMA LocalReplays ==
  ASSUME ListenerInv, ReplayInv, NEW p \in Polls, NEW t \in PollStates, t.start <= head, t.latest <= head,
         Local(p, t), UNCHANGED <<head, events, owner>>,
         \A q \in Processes : cursor'[q] \in Nat /\ cursor'[q] <= head,
         \/ damaged'
         \/ /\ \A r \in Polls : r # p => poll[r].at = "idle"
            /\ Tallied(row') /\ Floor(events, Seen', row') /\ Known(events, Seen', row')
            /\ Position(events, Seen', row', p, t)
  PROVE  ReplayInv'
<1>1. head \in Nat /\ poll \in [Polls -> PollStates]
  BY ReplayFacts
<1>2. poll'[p] = t /\ \A r \in Polls : r # p => poll'[r] = poll[r]
  BY <1>1 DEF Local
<1>3. \A r \in Polls : poll'[r].start <= head' /\ poll'[r].latest <= head'
  <2>1. \A r \in Polls : poll[r].start <= head /\ poll[r].latest <= head
    BY DEF ReplayInv, Behind
  <2>2. ASSUME NEW r \in Polls PROVE poll'[r].start <= head /\ poll'[r].latest <= head
    <3>1. CASE r = p
      BY <1>2, <3>1
    <3>2. CASE r # p
      BY <1>2, <2>1, <3>2
    <3> QED BY <3>1, <3>2
  <2> QED BY <2>2
<1>4. damaged' \/ Faithful(events, Seen', row', poll')
  <2> SUFFICES ASSUME ~damaged' PROVE Faithful(events, Seen', row', poll')
    OBVIOUS
  <2>1. PICK s, d, state : s = Seen' /\ d = row' /\ state = poll'
    OBVIOUS
  <2>2. \A r \in Polls : r # p => state[r].at = "idle"
    BY <1>2, <2>1
  <2>3. Position(events, s, d, p, state[p]) /\ Tallied(d) /\ Floor(events, s, d) /\ Known(events, s, d)
    BY <1>2, <2>1
  <2>4. Faithful(events, s, d, state)
    BY <2>2, <2>3, OnlyOne
  <2> QED BY <2>1, <2>4
<1>5. head <= head'
  BY <1>1
<1> QED BY <1>1, <1>3, <1>4, <1>5, QuietReplays

LEMMA PollReplays ==
  ASSUME ListenerInv, ReplayInv, NEW p \in Polls, PollStep(p) \/ PollThrows(p)
  PROVE  ReplayInv'
<1>0. PICK s : s = poll[p]
  OBVIOUS
<1>1. /\ head \in Nat /\ events \in Seq(Events) /\ row \in Rows /\ poll \in [Polls -> PollStates]
      /\ owner[p] \in Processes /\ owner \in [Polls -> Processes] /\ cursor \in [Processes -> Nat]
      /\ cursor[owner[p]] \in Nat /\ Seen \in [Polls -> Nat]
      /\ \A r \in Polls : Seen[r] = cursor[owner[r]]
      /\ row.votes \subseteq VotesOf(Image(events)) /\ IsFiniteSet(row.votes)
  BY ReplayFacts
<1>2. s \in PollStates /\ s.start \in Nat /\ s.latest \in Nat /\ s.batch \in Seq(Events)
  BY <1>0, <1>1 DEF PollStates
<1>3. s.start <= head /\ s.latest <= head /\ \A q \in Processes : cursor[q] \in Nat /\ cursor[q] <= head
  BY <1>0, <1>1 DEF ReplayInv, Behind
<1>4. Idle \in PollStates /\ Idle.start <= head /\ Idle.latest <= head /\ Idle.at = "idle"
  <2>1. Idle \in PollStates
    BY DEF Idle, PollStates, NoRow, Rows, Phases
  <2> QED BY <1>1, <2>1 DEF Idle
<1>5. Ordered(events)
  BY DEF ReplayInv
(* Without damage, only p is in a poll. *)
<1>6. ASSUME ~damaged
      PROVE  /\ Tallied(row) /\ Floor(events, Seen, row) /\ Known(events, Seen, row)
             /\ Position(events, Seen, row, p, s)
             /\ s.at # "idle" => \A r \in Polls : r # p => poll[r].at = "idle"
  BY <1>0, <1>6 DEF ReplayInv, Faithful, Alone
<1>7. CASE StartPoll(p) /\ linked
  <2>1. PICK n \in Nat : n = cursor[owner[p]] + 1
    BY <1>1
  <2>2. PICK t : t = [Idle EXCEPT !.at = "fetch", !.start = n]
    OBVIOUS
  <2>3. t \in PollStates /\ t.at = "fetch" /\ t.start = n /\ t.latest = Idle.latest
    BY <1>4, <2>2 DEF PollStates
  <2>4. /\ Local(p, t) /\ UNCHANGED <<head, events, owner, row, cursor>> /\ head > cursor[owner[p]]
        /\ damaged' = (damaged \/ \E r \in Polls : poll[r].at # "idle")
    BY <1>7, <2>1, <2>2 DEF StartPoll, chain
  <2>5. t.start <= head /\ t.latest <= head
    BY <1>1, <1>4, <2>1, <2>3, <2>4
  <2>6. Seen' = Seen
    BY <2>4 DEF Seen
  <2>7. Position(events, Seen, row, p, t)
    <3>1. ASSUME NEW j \in 1..Len(events)
          PROVE  events[j].ledger < t.start <=> events[j].ledger <= Seen[p]
      <4>1. events[j] \in Events
        BY <1>1
      <4>2. events[j].ledger \in Nat
        BY <4>1 DEF Events
      <4> QED BY <1>1, <2>1, <2>3, <4>2
    <3> QED BY <2>3, <3>1 DEF Position
  <2>8. damaged' \/ /\ \A r \in Polls : r # p => poll[r].at = "idle"
                    /\ Tallied(row') /\ Floor(events, Seen', row') /\ Known(events, Seen', row')
                    /\ Position(events, Seen', row', p, t)
    BY <1>6, <2>4, <2>6, <2>7
  <2> QED BY <1>3, <2>3, <2>4, <2>5, <2>8, LocalReplays
<1>8. CASE StartPoll(p) /\ ~linked
  <2>1. /\ cursor' = [cursor EXCEPT ![owner[p]] = head] /\ poll' = poll
        /\ damaged' = (damaged \/ Between(cursor[owner[p]], head))
        /\ UNCHANGED <<head, events, owner, row>>
    BY <1>8 DEF StartPoll, chain
  <2>2. head <= head /\ cursor[owner[p]] <= head
    BY <1>1, <1>3
  <2> QED BY <1>1, <2>1, <2>2, SetCursorReplays
<1>9. CASE GetEvents(p)
  <2>1. /\ s.at = "fetch"
        /\ \E skipped \in 0..Len(events) :
             /\ \A i \in DOMAIN events : events[i].ledger < s.start <=> i <= skipped
             /\ \E last : /\ last = IF skipped + Limit < Len(events) THEN skipped + Limit ELSE Len(events)
                          /\ Local(p, [s EXCEPT !.at = "next", !.start = 0, !.latest = head,
                                           !.batch = SubSeq(events, skipped + 1, last)])
                          /\ damaged' = (damaged \/ last < Len(events))
        /\ UNCHANGED <<head, events, owner, row, cursor>>
    BY <1>0, <1>9 DEF GetEvents, chain
  <2>2. PICK skipped \in 0..Len(events) :
             /\ \A i \in DOMAIN events : events[i].ledger < s.start <=> i <= skipped
             /\ \E last : /\ last = IF skipped + Limit < Len(events) THEN skipped + Limit ELSE Len(events)
                          /\ Local(p, [s EXCEPT !.at = "next", !.start = 0, !.latest = head,
                                           !.batch = SubSeq(events, skipped + 1, last)])
                          /\ damaged' = (damaged \/ last < Len(events))
    BY <2>1
  <2>3. PICK last : /\ last = IF skipped + Limit < Len(events) THEN skipped + Limit ELSE Len(events)
                    /\ Local(p, [s EXCEPT !.at = "next", !.start = 0, !.latest = head,
                                     !.batch = SubSeq(events, skipped + 1, last)])
                    /\ damaged' = (damaged \/ last < Len(events))
    BY <2>2
  <2>4. Len(events) \in Nat /\ DOMAIN events = 1..Len(events) /\ skipped \in Nat /\ Limit \in Nat
    BY <1>1, <2>2, ListenerAssumption
  <2>5. last \in Nat /\ last <= Len(events)
    BY <2>3, <2>4
  <2>6. PICK b \in Seq(Events) : b = SubSeq(events, skipped + 1, last)
    BY <1>1, <2>4, <2>5, PartOfEvents
  <2>7. PICK h \in Nat : h = head
    BY <1>1
  <2>8. PICK t : t = [s EXCEPT !.at = "next", !.start = 0, !.latest = h, !.batch = b]
    OBVIOUS
  <2>9. t \in PollStates /\ t.at = "next" /\ t.start = 0 /\ t.latest = h /\ t.batch = b
    BY <1>2, <2>8 DEF PollStates
  <2>10. t.start <= head /\ t.latest <= head /\ Local(p, t)
    BY <2>3, <2>6, <2>7, <2>8, <2>9
  <2>11. Seen' = Seen
    BY <2>1 DEF Seen
  <2>12. ASSUME ~damaged' PROVE Position(events, Seen, row, p, t)
    <3>1. last = Len(events)
      BY <2>3, <2>4, <2>5, <2>12
    <3>2. t.batch = SubSeq(events, skipped + 1, Len(events))
      BY <2>6, <2>9, <3>1
    <3>3. Floor(events, Seen, row) /\ Position(events, Seen, row, p, s)
      BY <1>6, <2>3, <2>12
    <3>4. \A i \in 1..Len(events) : events[i].ledger < s.start <=> i <= skipped
      BY <2>2, <2>4
    <3> QED BY <1>1, <2>1, <2>9, <3>2, <3>3, <3>4, FetchReaches
  <2>13. damaged' \/ /\ \A r \in Polls : r # p => poll[r].at = "idle"
                     /\ Tallied(row') /\ Floor(events, Seen', row') /\ Known(events, Seen', row')
                     /\ Position(events, Seen', row', p, t)
    BY <1>6, <2>1, <2>3, <2>11, <2>12
  <2> QED BY <1>3, <2>1, <2>9, <2>10, <2>13, LocalReplays
<1>10. CASE ReadRow(p)
  <2>1. /\ s.at = "next" /\ s.batch # <<>>
        /\ UNCHANGED <<head, events, owner, row, cursor, damaged>>
        /\ \/ /\ row = NoRow /\ Head(s.batch).kind # "raised"
              /\ Local(p, [s EXCEPT !.batch = Tail(@)])
           \/ Local(p, [s EXCEPT !.at = "save", !.entity = row])
    BY <1>0, <1>10 DEF ReadRow, chain
  <2>2. Seen' = Seen
    BY <2>1 DEF Seen
(* Without damage there is a row, unless the dispute's first event is next. *)
  <2>3. CASE row = NoRow /\ Head(s.batch).kind # "raised" /\ Local(p, [s EXCEPT !.batch = Tail(@)])
    <3>1. PICK b \in Seq(Events) : b = s.batch /\ b # <<>>
      BY <1>2, <2>1
    <3>2. PICK c \in Seq(Events) : c = Tail(b)
      BY <3>1, BatchParts
    <3>3. PICK t : t = [s EXCEPT !.batch = c]
      OBVIOUS
    <3>4. t \in PollStates /\ t.start = s.start /\ t.latest = s.latest
      BY <1>2, <3>3 DEF PollStates
    <3>5. Local(p, t)
      BY <2>3, <3>1, <3>2, <3>3
    <3>6. damaged
      <4>1. SUFFICES ASSUME ~damaged PROVE FALSE
        OBVIOUS
      <4>2. PICK f \in 0..Len(events), i \in 0..Len(events), l \in 0..Len(events) :
                   Reached(events, Seen, row, p, s, f, i, l)
        BY <1>6, <2>1, <4>1 DEF Position
      <4>3. i = 0
        <5>1. Known(events, Seen, row)
          BY <1>6, <4>1
        <5>2. i > 0 => row.phase # "none"
          BY <1>1, <1>5, <4>2, <5>1, RowIsThere
        <5>3. row.phase = "none" /\ i \in Nat
          BY <2>3 DEF NoRow
        <5> QED BY <5>2, <5>3
      <4>4. Len(b) \in Nat /\ Len(b) > 0 /\ Head(b) = b[1] /\ 1 \in 1..Len(b)
        BY <3>1, BatchParts
      <4>5. Len(b) = l - i /\ b[1] = events[i + 1] /\ l \in Nat /\ l <= Len(events) /\ Len(events) \in Nat
        BY <1>1, <3>1, <4>2, <4>4 DEF Reached
      <4>6. Head(b) = events[1] /\ Len(events) > 0
        BY <4>3, <4>4, <4>5
      <4> QED BY <1>5, <2>3, <3>1, <4>6 DEF Ordered
    <3> QED BY <1>3, <2>1, <3>4, <3>5, <3>6, LocalReplays
  <2>4. CASE Local(p, [s EXCEPT !.at = "save", !.entity = row])
    <3>1. PICK d \in Rows : d = row
      BY <1>1
    <3>2. PICK t : t = [s EXCEPT !.at = "save", !.entity = d]
      OBVIOUS
    <3>3. t \in PollStates /\ t.at = "save" /\ t.entity = d /\ t.start = s.start /\ t.latest = s.latest
          /\ t.batch = s.batch
      BY <1>2, <3>2 DEF PollStates
    <3>4. Local(p, t)
      BY <2>4, <3>1, <3>2
    <3>5. ASSUME Position(events, Seen, row, p, s) PROVE Position(events, Seen, row, p, t)
      <4>1. PICK f \in 0..Len(events), i \in 0..Len(events), l \in 0..Len(events) :
                   Reached(events, Seen, row, p, s, f, i, l)
        BY <2>1, <3>5 DEF Position
      <4>2. Reached(events, Seen, row, p, t, f, i, l)
        BY <3>3, <4>1 DEF Reached
      <4> QED BY <3>1, <3>3, <4>2 DEF Position
    <3>6. damaged' \/ /\ \A r \in Polls : r # p => poll[r].at = "idle"
                      /\ Tallied(row') /\ Floor(events, Seen', row') /\ Known(events, Seen', row')
                      /\ Position(events, Seen', row', p, t)
      BY <1>6, <2>1, <2>2, <3>5
    <3> QED BY <1>3, <2>1, <3>3, <3>4, <3>6, LocalReplays
  <2> QED BY <2>1, <2>3, <2>4
<1>11. CASE SaveRow(p)
  <2>1. /\ s.at = "save" /\ row' = IndexDisputeEvent(s.entity, Head(s.batch))
        /\ Local(p, [s EXCEPT !.at = "next", !.batch = Tail(@), !.entity = NoRow])
        /\ UNCHANGED <<head, events, owner, cursor, damaged>>
    BY <1>0, <1>11 DEF SaveRow, chain
  <2>2. s.batch # <<>>
    BY <1>0, <2>1 DEF ListenerInv, PollShown
  <2>3. PICK b \in Seq(Events) : b = s.batch /\ b # <<>>
    BY <1>2, <2>2
  <2>4. PICK c \in Seq(Events) : c = Tail(b)
    BY <2>3, BatchParts
  <2>5. PICK d \in Rows : d = NoRow
    BY DEF NoRow, Rows, Phases
  <2>6. PICK t : t = [s EXCEPT !.at = "next", !.batch = c, !.entity = d]
    OBVIOUS
  <2>7. t \in PollStates /\ t.at = "next" /\ t.batch = c /\ t.start = s.start /\ t.latest = s.latest
    BY <1>2, <2>6 DEF PollStates
  <2>8. Local(p, t)
    BY <2>1, <2>3, <2>4, <2>5, <2>6
  <2>9. Seen' = Seen
    BY <2>1 DEF Seen
  <2>10. ASSUME ~damaged
         PROVE  Tallied(row') /\ Floor(events, Seen, row') /\ Known(events, Seen, row')
                /\ Position(events, Seen, row', p, t)
    <3>1. s.entity = row
      BY <1>6, <2>1, <2>10 DEF Position
    <3>2. PICK n : n = IndexDisputeEvent(row, Head(s.batch)) /\ n = row'
      BY <2>1, <3>1
    <3>3. Head(s.batch) \in Events
      BY <2>3, BatchParts
    <3>4. Tallied(n)
      BY <1>1, <1>6, <2>10, <3>2, <3>3, IndexTallied
    <3>5. s.at \in {"next", "save"} /\ t.batch = Tail(s.batch)
      BY <2>1, <2>3, <2>4, <2>7
    <3>6. Floor(events, Seen, n) /\ Known(events, Seen, n) /\ Position(events, Seen, n, p, t)
      BY <1>1, <1>2, <1>5, <1>6, <2>2, <2>7, <2>10, <3>2, <3>5, SaveAdvances
    <3> QED BY <3>2, <3>4, <3>6
  <2>11. damaged' \/ /\ \A r \in Polls : r # p => poll[r].at = "idle"
                     /\ Tallied(row') /\ Floor(events, Seen', row') /\ Known(events, Seen', row')
                     /\ Position(events, Seen', row', p, t)
    BY <1>6, <2>1, <2>9, <2>10
  <2> QED BY <1>3, <2>1, <2>7, <2>8, <2>11, LocalReplays
<1>12. CASE EndPoll(p)
  <2>1. /\ s.at = "next" /\ s.batch = <<>> /\ Local(p, Idle)
        /\ UNCHANGED <<head, events, owner, row, damaged>>
        /\ cursor' = [cursor EXCEPT ![owner[p]] = Max({@, s.latest})]
    BY <1>0, <1>12 DEF EndPoll, chain
  <2>2. PICK c \in {cursor[owner[p]], s.latest} : c = Max({cursor[owner[p]], s.latest})
    <3>1. cursor[owner[p]] \in Int /\ s.latest \in Int
      BY <1>1, <1>2
    <3> QED BY <3>1, MaxOfTwo
  <2>3. cursor' = [cursor EXCEPT ![owner[p]] = c] /\ c \in Nat /\ c <= head
    BY <1>1, <1>2, <1>3, <2>1, <2>2
  <2>4. \A q \in Processes : cursor'[q] \in Nat /\ cursor'[q] <= head
    BY <1>1, <1>3, <2>3
  <2>5. PICK new : new = Seen'
    OBVIOUS
  <2>6. \A r \in Polls : new[r] = IF owner[r] = owner[p] THEN c ELSE Seen[r]
    BY <1>1, <2>1, <2>3, <2>5 DEF Seen
  <2>7. Advanced(Seen, new, p, s.latest)
    BY <1>1, <2>2, <2>6 DEF Advanced
  <2>8. ASSUME ~damaged PROVE Floor(events, new, row) /\ Known(events, new, row)
    <3>1. Floor(events, Seen, row) /\ Known(events, Seen, row) /\ Position(events, Seen, row, p, s)
      BY <1>6, <2>8
    <3> QED BY <1>1, <1>2, <1>5, <2>1, <2>7, <3>1, EndReaches
  <2>9. Position(events, new, row, p, Idle)
    BY <1>4 DEF Position
  <2>10. damaged' \/ /\ \A r \in Polls : r # p => poll[r].at = "idle"
                     /\ Tallied(row') /\ Floor(events, Seen', row') /\ Known(events, Seen', row')
                     /\ Position(events, Seen', row', p, Idle)
    BY <1>6, <2>1, <2>5, <2>8, <2>9
  <2> QED BY <1>4, <2>1, <2>4, <2>10, LocalReplays
<1>13. CASE PollThrows(p)
  <2>1. /\ s.at # "idle" /\ Local(p, Idle) /\ UNCHANGED <<head, events, owner, row, cursor, damaged>>
    BY <1>0, <1>13 DEF PollThrows, chain
  <2>2. Seen' = Seen
    BY <2>1 DEF Seen
  <2>3. Position(events, Seen, row, p, Idle)
    BY <1>4 DEF Position
  <2>4. damaged' \/ /\ \A r \in Polls : r # p => poll[r].at = "idle"
                    /\ Tallied(row') /\ Floor(events, Seen', row') /\ Known(events, Seen', row')
                    /\ Position(events, Seen', row', p, Idle)
    BY <1>6, <2>1, <2>2, <2>3
  <2> QED BY <1>3, <1>4, <2>1, <2>4, LocalReplays
<1> QED BY <1>7, <1>8, <1>9, <1>10, <1>11, <1>12, <1>13 DEF PollStep

LEMMA RestartReplays ==
  ASSUME ListenerInv, ReplayInv, NEW q \in Processes, Restart(q)
  PROVE  ReplayInv'
<1>1. PICK c \in {0, Max({0, head - Lookback})} :
        /\ cursor' = [cursor EXCEPT ![q] = c]
        /\ damaged' = (damaged \/ Between(cursor[q], c))
        /\ poll' = [p \in Polls |-> IF owner[p] = q THEN Idle ELSE poll[p]]
        /\ UNCHANGED <<head, events, owner, row>>
  BY DEF Restart, chain
<1>2. head \in Nat /\ Lookback \in Nat
  BY ReplayFacts, ListenerAssumption
<1>3. Max({0, head - Lookback}) \in {0, head - Lookback}
  BY <1>2, MaxOfTwo
<1>4. Max({0, head - Lookback}) \in Nat
  <2>1. \E x \in {0, head - Lookback} : \A y \in {0, head - Lookback} : x >= y
    BY <1>2
  <2>2. Max({0, head - Lookback}) >= 0
    BY <1>2, <2>1 DEF Max
  <2> QED BY <1>2, <1>3, <2>2
<1>5. c \in Nat /\ c <= head
  BY <1>1, <1>2, <1>3, <1>4
<1>6. \A p \in Polls : poll'[p] = Idle \/ (poll'[p] = poll[p] /\ owner[p] # q)
  BY <1>1
<1> QED BY <1>1, <1>5, <1>6, SetCursorReplays

LEMMA NextReplays == ListenerInv /\ ReplayInv /\ [ListenerNext]_listenerVars => ReplayInv'
<1> SUFFICES ASSUME ListenerInv, ReplayInv, [ListenerNext]_listenerVars PROVE ReplayInv'
  OBVIOUS
<1>1. /\ head \in Nat /\ events \in Seq(Events) /\ cursor \in [Processes -> Nat]
      /\ poll \in [Polls -> PollStates]
  BY ReplayFacts
(* Steps that change neither events nor cursors, rows and polls. *)
<1>2. ASSUME UNCHANGED <<events, row, cursor, owner, poll, damaged>>, head' \in Nat, head <= head'
      PROVE  ReplayInv'
  <2>1. \A q \in Processes : cursor[q] \in Nat /\ cursor[q] <= head
    BY <1>1 DEF ReplayInv, Behind
  <2>2. \A q \in Processes : cursor'[q] \in Nat /\ cursor'[q] <= head'
    BY <1>1, <1>2, <2>1
  <2>3. \A p \in Polls : poll[p].start \in Nat /\ poll[p].latest \in Nat
    BY <1>1 DEF PollStates
  <2>4. \A p \in Polls : poll[p].start <= head /\ poll[p].latest <= head
    BY DEF ReplayInv, Behind
  <2>5. \A p \in Polls : poll'[p].start <= head' /\ poll'[p].latest <= head'
    BY <1>1, <1>2, <2>3, <2>4
  <2>6. Seen' = Seen
    BY <1>2 DEF Seen
  <2>7. damaged' \/ Faithful(events, Seen', row', poll')
    BY <1>2, <2>6 DEF ReplayInv
  <2> QED BY <1>2, <2>2, <2>5, <2>7, QuietReplays
<1>3. CASE ChainStep
  <2>1. CASE EmptyLedger
    <3>1. UNCHANGED <<events, row, cursor, owner, poll, damaged>> /\ head' = head + 1
      BY <2>1 DEF EmptyLedger
    <3>2. head' \in Nat /\ head <= head'
      BY <1>1, <3>1
    <3> QED BY <1>2, <3>1, <3>2
  <2>2. CASE LinkCampaign
    <3>1. UNCHANGED <<events, row, cursor, owner, poll, damaged>> /\ head' = head
      BY <2>2 DEF LinkCampaign, chain
    <3>2. head' \in Nat /\ head <= head'
      BY <1>1, <3>1
    <3> QED BY <1>2, <3>1, <3>2
  <2> QED BY <1>3, <2>1, <2>2, DisputeReplays DEF ChainStep
<1>4. CASE \E p \in Polls : PollStep(p) \/ PollThrows(p)
  BY <1>4, PollReplays
<1>5. CASE \E q \in Processes : Restart(q)
  BY <1>5, RestartReplays
<1>6. CASE UNCHANGED listenerVars
  <2>1. UNCHANGED <<events, row, cursor, owner, poll, damaged>> /\ head' = head
    BY <1>6 DEF listenerVars, chain
  <2>2. head' \in Nat /\ head <= head'
    BY <1>1, <2>1
  <2> QED BY <1>2, <2>1, <2>2
<1> QED BY <1>3, <1>4, <1>5, <1>6 DEF ListenerNext

(* Between what a row must show and what it may claim nothing is left. *)
LEMMA ReplayConverges == ListenerInv /\ ReplayInv => Converges
<1> SUFFICES ASSUME ListenerInv, ReplayInv, CaughtUp, ~damaged PROVE Projected
  BY DEF Converges
<1>1. /\ events \in Seq(Events) /\ row \in Rows /\ Seen \in [Polls -> Nat]
      /\ \A p \in Polls : Seen[p] = cursor[owner[p]]
      /\ Len(events) \in Nat /\ Len(events) \in 0..Len(events)
  BY ReplayFacts
<1>2. Tallied(row) /\ Floor(events, Seen, row)
  BY DEF ReplayInv, Faithful
<1>3. ReadByAll(events, Seen, Len(events))
  BY <1>1 DEF ReadByAll, CaughtUp, ReplayInv, Behind
<1>4. Shows(Chain, row)
  <2>1. First(events, Len(events)) = Chain
    BY <1>1 DEF First, Chain, Image
  <2> QED BY <1>1, <1>2, <1>3, <2>1 DEF Floor
<1>5. Range(events) = Chain /\ Shown(Chain, row) /\ NeverAhead
  BY <1>1, ChainFinite, ShownIsNeverAhead DEF ListenerInv
<1>6. \A k : Happened(k) <=> Has(Chain, k)
  BY <1>5 DEF Happened, Has
<1>7. Votes = VotesOf(Chain) /\ (Votes # {} <=> Has(Chain, "vote"))
  BY <1>5 DEF Votes, VotesOf, Has
<1>8. row.votes = Votes
  BY <1>4, <1>5, <1>7 DEF Shows, Shown, VotesShown
<1>9. row.releaseVotes = For(Votes, TRUE) /\ row.refundVotes = For(Votes, FALSE)
  <2>1. For(Votes, TRUE) = Ayes(Votes) /\ For(Votes, FALSE) = Nays(Votes)
    BY Zenon DEF For, Ayes, Nays
  <2> QED BY <1>2, <1>8, <2>1, Zenon DEF Tallied
<1>10. row.outcome = IF Happened("verdict") THEN OutcomeOf(Verdict) ELSE "none"
  <2>1. Happened("verdict") => row.outcome # "none"
    BY <1>4, <1>6 DEF Shows
  <2> QED BY <1>5, <2>1 DEF NeverAhead
<1>11. row.phase = ChainPhase
  <2>1. /\ Happened("raised") => row.phase # "none"
        /\ Votes # {} => row.phase \notin {"none", "open"}
        /\ Happened("verdict") => row.phase \in {"verdict", "resolved"}
        /\ Happened("resolved") => row.phase = "resolved"
    BY <1>4, <1>6, <1>7 DEF Shows
  <2>2. /\ row.phase = "open" => Happened("raised")
        /\ row.phase = "arbitration" => Votes # {}
        /\ row.phase = "verdict" => Happened("verdict")
        /\ row.phase = "resolved" => Happened("resolved")
    BY <1>5, <1>6, <1>7 DEF Shown, PhaseShown
  <2>3. row.phase \in Phases
    BY <1>1 DEF Rows
  <2> QED BY <2>1, <2>2, <2>3 DEF ChainPhase, Phases
<1> QED BY <1>8, <1>9, <1>10, <1>11 DEF Projected

(* Unless events were lost in one of the four ways the code has to lose     *)
(* them, the row of contract_disputes is exact whenever every process has   *)
(* caught up with the chain (Converges): replays after failed polls and     *)
(* restarts, by one replica behind the other, rebuild it.                   *)
THEOREM ConvergesHolds == ListenerSpec => []Converges
<1>1. ListenerInit => ListenerInv /\ ReplayInv
  BY InitListener, InitReplay
<1>2. ListenerInv /\ ReplayInv /\ [ListenerNext]_listenerVars => (ListenerInv /\ ReplayInv)'
  BY NextListener, NextReplays
<1> QED BY <1>1, <1>2, ReplayConverges, PTL DEF ListenerSpec
=============================================================================
