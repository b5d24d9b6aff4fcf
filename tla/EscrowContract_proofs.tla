----------------------- MODULE EscrowContract_proofs -----------------------
(***************************************************************************)
(* Proofs about EscrowContract for every set of accounts, every deal       *)
(* value, deadline and number of milestones: the invariants between and    *)
(* during invocations (IInv), then the books and the refinement of         *)
(* EscrowLedger (RInv).                                                    *)
(***************************************************************************)
EXTENDS EscrowRefinement, SumLemmas

\* What the k-th pending transfer will add to the balance of h.
Credit(k, h) ==
    IF k <= Len(call.pay)
    THEN (IF call.pay[k].to = h THEN call.pay[k].amount ELSE 0)
         - (IF call.pay[k].from = h THEN call.pay[k].amount ELSE 0)
    ELSE 0

\* The balance h will have when the pending transfers are made.
Expected(h) == balance[h] + Credit(1, h) + Credit(2, h)

\* What the payout adds to the wallet of a, with tf paid out in total.
Share(a, tf) == IF a = Farmer THEN FarmerAmount(tf)
                ELSE IF a = Platform THEN tf - FarmerAmount(tf) ELSE 0

PayInv ==
    /\ Len(call.pay) <= 2
    /\ \A k \in 1 .. Len(call.pay) :
          /\ call.pay[k].to # call.pay[k].from
          /\ call.pay[k].to \notin frozenContributors
          /\ call.pay[k].amount >= 0

FlagInv ==
    /\ operationInProgress <=> ~Idle
    /\ Idle => call.pay = <<>> /\ call.todo = {}
    /\ ~Idle => (released <=> call.op = "payout")

Books ==
    /\ Expected(Escrow) = donated[Escrow]
                          + (IF released THEN 0 ELSE totalFunded)
    /\ \A a \in Addr :
          Expected(a) + investors[a] + donated[a]
            = InitBalance[a] + (IF released THEN Share(a, totalFunded) ELSE 0)

SavedInv ==
    ~Idle =>
      /\ ~call.saved.released
      /\ call.saved.frozen = frozenContributors
      /\ call.saved.balance[Escrow] = donated[Escrow] + call.saved.totalFunded
      /\ \A a \in Addr :
            call.saved.balance[a] + call.saved.investors[a] + donated[a]
              = InitBalance[a]
      /\ \A a \in call.saved.refunded : call.saved.investors[a] = 0

LoopInv ==
    call.op = "refund_all" =>
      /\ call.loc.totalFunded = totalFunded
      /\ call.loc.investors = investors
      /\ call.loc.refunded = refunded
      /\ \A i \in call.todo : call.saved.investors[i] = investors[i]
      /\ \A i \in Addr \ call.todo :
            investors[i] > 0 => i \in frozenContributors

IInv ==
    /\ TypeOK
    /\ PayInv
    /\ FlagInv
    /\ Books
    /\ SavedInv
    /\ LoopInv
    /\ RefundedOwnsNothing

-----------------------------------------------------------------------------
LEMMA InitIInv == Init => IInv
<1> SUFFICES ASSUME Init PROVE IInv
  OBVIOUS
<1> USE AddrAssumption, DealAssumption, BoundAssumption
<1>1. Blank \in Snapshot
  BY DEF Blank, Snapshot
<1>2. CallOK
  BY <1>1 DEF Init, NoCall, CallOK
<1>3. FlagsOK
  BY DEF Init, FlagsOK
<1>4. DataOK
  BY DEF Init, DataOK, Holder
<1>5. PayInv /\ FlagInv /\ SavedInv /\ LoopInv /\ RefundedOwnsNothing
  BY DEF Init, PayInv, FlagInv, SavedInv, LoopInv, RefundedOwnsNothing, Idle,
         NoCall, Blank
<1>6. Books
  BY DEF Init, Books, Expected, Credit, NoCall, Blank, Holder
<1> QED
  BY <1>2, <1>3, <1>4, <1>5, <1>6 DEF IInv, TypeOK

\* The 98% share is between 0 and the whole.
LEMMA FarmerAmountBounds ==
    ASSUME NEW t \in Nat
    PROVE  FarmerAmount(t) \in 0 .. t
  BY DEF FarmerAmount

\* When an entry point passes its first checks, nothing is pending and the
\* books balance as they stand.
LEMMA IdleBooks ==
    ASSUME IInv, ~operationInProgress
    PROVE  /\ Idle
           /\ call.pay = <<>>
           /\ call.todo = {}
           /\ balance[Escrow] = donated[Escrow]
                                + (IF released THEN 0 ELSE totalFunded)
           /\ \A a \in Addr :
                 balance[a] + investors[a] + donated[a] = InitBalance[a]
                    + (IF released THEN Share(a, totalFunded) ELSE 0)
<1>1. Idle /\ call.pay = <<>> /\ call.todo = {}
  BY DEF IInv, FlagInv
<1>2. \A h \in Holder : Expected(h) = balance[h]
  BY <1>1 DEF Expected, Credit, IInv, TypeOK, DataOK
<1> QED
  BY <1>1, <1>2 DEF IInv, Books, Holder

LEMMA CurrentType ==
    ASSUME IInv
    PROVE  Current \in Snapshot
  BY DEF IInv, TypeOK, FlagsOK, DataOK, Current, Snapshot

\* Entering an invocation before the release saves a state with balanced books.
LEMMA EnterSaved ==
    ASSUME IInv, CanEnter, ~released,
           call'.op # "none", call'.saved = Current,
           donated' = donated, frozenContributors' = frozenContributors
    PROVE  SavedInv'
<1>1. /\ balance[Escrow] = donated[Escrow] + totalFunded
      /\ \A a \in Addr :
            balance[a] + investors[a] + donated[a] = InitBalance[a]
  BY IdleBooks, BoundAssumption DEF CanEnter
<1>2. \A a \in refunded : investors[a] = 0
  BY DEF IInv, RefundedOwnsNothing
<1> QED
  BY <1>1, <1>2 DEF SavedInv, Current

LEMMA FundStep ==
    ASSUME IInv, NEW a \in Addr, NEW n \in 1 .. MaxAmount, Fund(a, n)
    PROVE  IInv'
<1> USE AddrAssumption, BoundAssumption
<1>1. /\ CanEnter /\ ~released /\ operationInProgress' = TRUE
      /\ donated' = donated /\ frozenContributors' = frozenContributors
      /\ balance' = balance /\ released' = released
      /\ totalFunded' = totalFunded + n
      /\ investors' = [investors EXCEPT ![a] = @ + n]
      /\ refunded' = refunded \ {a}
      /\ call' = [op |-> "fund", pay |-> <<Payment(a, Escrow, n)>>,
                  todo |-> {}, loc |-> Current, saved |-> Current]
  BY DEF Fund, Enter
<1>2. <<Payment(a, Escrow, n)>>
            \in Seq([from : Holder, to : Holder, amount : Int])
  BY DEF Payment, Holder
<1>3. CallOK'
  BY <1>1, <1>2, CurrentType DEF CallOK
<1>4. SavedInv'
  BY <1>1, EnterSaved
<1>5. DataOK'
  BY DEF Fund, IInv, TypeOK, DataOK
<1>6. FlagsOK'
  BY <1>1 DEF Fund, IInv, TypeOK, FlagsOK
<1>7. PayInv'
  BY <1>1, SMTT(30) DEF PayInv, Payment, IInv, TypeOK, DataOK
<1>8. FlagInv'
  BY <1>1 DEF FlagInv, Idle
<1>9. Books'
  <2>1. \A h \in Holder : Expected(h)' =
            balance[h] + (IF h = Escrow THEN n ELSE 0)
                       - (IF h = a THEN n ELSE 0)
    BY <1>1 DEF Expected, Credit, Payment, IInv, TypeOK, DataOK
  <2>2. /\ balance[Escrow] = donated[Escrow] + totalFunded
        /\ \A b \in Addr :
              balance[b] + investors[b] + donated[b] = InitBalance[b]
    BY <1>1, IdleBooks DEF CanEnter
  <2>3. Expected(Escrow)' = balance[Escrow] + n
    BY <2>1 DEF Holder, IInv, TypeOK, DataOK
  <2>4. \A b \in Addr : Expected(b)' = balance[b] - (IF b = a THEN n ELSE 0)
    BY <2>1 DEF Holder, IInv, TypeOK, DataOK
  <2>5. \A b \in Addr : Expected(b)' + investors'[b] + donated[b]
                            = InitBalance[b]
    BY <1>1, <2>2, <2>4 DEF Holder, IInv, TypeOK, DataOK
  <2> QED
    BY <1>1, <2>2, <2>3, <2>5 DEF Books, Holder, IInv, TypeOK, DataOK
<1>10. LoopInv' /\ RefundedOwnsNothing'
  BY <1>1 DEF LoopInv, RefundedOwnsNothing, IInv, TypeOK, DataOK
<1> QED
  BY <1>3, <1>4, <1>5, <1>6, <1>7, <1>8, <1>9, <1>10 DEF IInv, TypeOK

\* Steps that leave the money, the maps and the invocation alone.
LEMMA QuietStep ==
    ASSUME IInv,
           UNCHANGED <<totalFunded, investors, refunded, released,
                       operationInProgress, balance, call, donated>>,
           Idle \/ frozenContributors' = frozenContributors,
           FlagsOK', DataOK'
    PROVE  IInv'
<1>1. CallOK' /\ FlagInv' /\ LoopInv' /\ RefundedOwnsNothing'
  BY DEF IInv, TypeOK, CallOK, FlagInv, LoopInv, RefundedOwnsNothing, Idle
<1>2. Books'
  BY DEF IInv, Books, Expected, Credit
<1>3. PayInv' /\ SavedInv'
  <2>1. CASE Idle
    BY <2>1 DEF IInv, PayInv, SavedInv, FlagInv, Idle
  <2>2. CASE frozenContributors' = frozenContributors
    BY <2>2 DEF IInv, PayInv, SavedInv, Idle
  <2> QED
    BY <2>1, <2>2
<1> QED
  BY <1>1, <1>2, <1>3 DEF IInv, TypeOK

LEMMA QuietActions ==
    ASSUME IInv,
           NEW a \in Addr, NEW b \in Addr, NEW id \in 0 .. MilestoneCount,
           \/ Initialize \/ ApproveDelivery(a) \/ SubmitDeliveryMilestone(a)
           \/ RecordMilestone(a, id) \/ FreezeContributor(a, b)
           \/ UnfreezeContributor(a, b) \/ Tick
    PROVE  IInv'
<1> USE DealAssumption
<1>1. CASE Initialize
  <2>1. FlagsOK' /\ DataOK'
    BY <1>1 DEF Initialize, IInv, TypeOK, FlagsOK, DataOK
  <2> QED
    BY <1>1, <2>1, QuietStep DEF Initialize
<1>2. CASE ApproveDelivery(a) \/ SubmitDeliveryMilestone(a)
  <2>1. FlagsOK'
    BY <1>2 DEF ApproveDelivery, SubmitDeliveryMilestone, IInv, TypeOK, FlagsOK
  <2>2. DataOK'
    BY <1>2 DEF ApproveDelivery, SubmitDeliveryMilestone, IInv, TypeOK, DataOK
  <2> QED
    BY <1>2, <2>1, <2>2, QuietStep DEF ApproveDelivery, SubmitDeliveryMilestone
<1>3. CASE RecordMilestone(a, id)
  <2>1. FlagsOK'
    BY <1>3 DEF RecordMilestone, IInv, TypeOK, FlagsOK
  <2>2. DataOK'
    BY <1>3 DEF RecordMilestone, IInv, TypeOK, DataOK, Milestones
  <2> QED
    BY <1>3, <2>1, <2>2, QuietStep DEF RecordMilestone
<1>4. CASE FreezeContributor(a, b) \/ UnfreezeContributor(a, b)
  <2>1. FlagsOK'
    BY <1>4 DEF FreezeContributor, UnfreezeContributor, IInv, TypeOK, FlagsOK
  <2>2. DataOK'
    BY <1>4 DEF FreezeContributor, UnfreezeContributor, IInv, TypeOK, DataOK
  <2>3. Idle
    BY <1>4, IdleBooks DEF FreezeContributor, UnfreezeContributor, CanEnter
  <2> QED
    BY <1>4, <2>1, <2>2, <2>3, QuietStep
       DEF FreezeContributor, UnfreezeContributor
<1>5. CASE Tick
  <2>1. FlagsOK'
    BY <1>5 DEF Tick, storage, IInv, TypeOK, FlagsOK
  <2>2. DataOK'
    BY <1>5 DEF Tick, storage, IInv, TypeOK, DataOK
  <2> QED
    BY <1>5, <2>1, <2>2, QuietStep DEF Tick, storage
<1> QED
  BY <1>1, <1>2, <1>3, <1>4, <1>5

\* The transfers of a payout, one by one.
LEMMA PayoutTransfersCases ==
    ASSUME NEW t \in Nat
    PROVE  LET f == FarmerAmount(t)
               p == t - f
               F == Payment(Escrow, Farmer, f)
               P == Payment(Escrow, Platform, p)
           IN  \/ f = 0 /\ p = 0 /\ PayoutTransfers(t) = <<>>
               \/ p = 0 /\ PayoutTransfers(t) = <<F>>
               \/ f = 0 /\ PayoutTransfers(t) = <<P>>
               \/ PayoutTransfers(t) = <<F, P>>
<1> DEFINE f == FarmerAmount(t)
           p == t - f
           F == Payment(Escrow, Farmer, f)
           P == Payment(Escrow, Platform, p)
<1>1. f \in Nat /\ p \in Nat
  BY FarmerAmountBounds
<1> QED
  BY <1>1 DEF PayoutTransfers

\* The common tail of release and settle_escrow.
LEMMA PayOutStep ==
    ASSUME IInv, CanEnter, ~released, totalFunded > 0, PayOut
    PROVE  IInv'
<1> USE AddrAssumption, BoundAssumption
<1> DEFINE f == FarmerAmount(totalFunded)
           p == totalFunded - f
           F == Payment(Escrow, Farmer, f)
           P == Payment(Escrow, Platform, p)
           pay == PayoutTransfers(totalFunded)
<1>1. /\ operationInProgress' = TRUE /\ released' = TRUE
      /\ donated' = donated /\ frozenContributors' = frozenContributors
      /\ balance' = balance /\ totalFunded' = totalFunded
      /\ investors' = investors /\ refunded' = refunded
      /\ Farmer \notin frozenContributors /\ Platform \notin frozenContributors
      /\ call' = [op |-> "payout", pay |-> pay,
                  todo |-> {}, loc |-> Current, saved |-> Current]
  BY DEF PayOut, Enter
<1>2. totalFunded \in Nat /\ f \in Nat /\ p \in Nat
  <2>1. totalFunded \in Nat
    BY DEF IInv, TypeOK, DataOK
  <2> QED
    BY <2>1, FarmerAmountBounds
<1>3. \/ f = 0 /\ p = 0 /\ pay = <<>>
      \/ p = 0 /\ pay = <<F>>
      \/ f = 0 /\ pay = <<P>>
      \/ pay = <<F, P>>
  BY <1>2, PayoutTransfersCases
<1> HIDE DEF f, p, pay
<1>4. F \in [from : Holder, to : Holder, amount : Int]
      /\ P \in [from : Holder, to : Holder, amount : Int]
  BY <1>2 DEF Payment, Holder
<1>5. pay \in Seq([from : Holder, to : Holder, amount : Int])
  <2> DEFINE PT == [from : Holder, to : Holder, amount : Int]
  <2>1. F \in PT /\ P \in PT
    BY <1>4
  <2> HIDE DEF F, P, PT
  <2>2. /\ <<>> \in Seq(PT) /\ <<F>> \in Seq(PT)
        /\ <<P>> \in Seq(PT) /\ <<F, P>> \in Seq(PT)
    BY <2>1
  <2>3. pay \in Seq(PT)
    BY <1>3, <2>2
  <2> QED
    BY <2>3 DEF PT
<1>6. CallOK'
  BY <1>1, <1>5, CurrentType DEF CallOK
<1>7. SavedInv'
  BY <1>1, EnterSaved
<1>8. DataOK'
  BY DEF PayOut, IInv, TypeOK, DataOK
<1>9. FlagsOK'
  BY <1>1 DEF PayOut, IInv, TypeOK, FlagsOK
<1>10. PayInv'
  <2>1. /\ F.to = Farmer /\ F.from = Escrow /\ F.amount >= 0
        /\ P.to = Platform /\ P.from = Escrow /\ P.amount >= 0
    BY <1>2 DEF Payment
  <2>2. Farmer # Escrow /\ Platform # Escrow
    OBVIOUS
  <2> HIDE DEF F, P
  <2>3. Len(pay) <= 2 /\ \A k \in 1 .. Len(pay) : pay[k] = F \/ pay[k] = P
    <3>1. CASE pay = <<>>
      BY <3>1
    <3>2. CASE pay = <<F>>
      BY <3>2
    <3>3. CASE pay = <<P>>
      BY <3>3
    <3>4. CASE pay = <<F, P>>
      BY <3>4
    <3> QED
      BY <1>3, <3>1, <3>2, <3>3, <3>4
  <2> QED
    BY <1>1, <2>1, <2>2, <2>3 DEF PayInv
<1>11. FlagInv'
  BY <1>1 DEF FlagInv, Idle
<1>12. Books'
  <2>1. \A h \in Holder : Expected(h)' =
            balance[h] + (IF h = Escrow THEN - totalFunded
                          ELSE IF h = Farmer THEN f
                          ELSE IF h = Platform THEN p ELSE 0)
    <3>1. f + p = totalFunded
      BY <1>2 DEF p
    <3>2. CASE f = 0 /\ p = 0 /\ pay = <<>>
      BY <1>1, <3>1, <3>2 DEF Expected, Credit, IInv, TypeOK, DataOK
    <3>3. CASE p = 0 /\ pay = <<F>>
      BY <1>1, <1>2, <3>1, <3>3
         DEF Expected, Credit, Payment, IInv, TypeOK, DataOK
    <3>4. CASE f = 0 /\ pay = <<P>>
      BY <1>1, <1>2, <3>1, <3>4
         DEF Expected, Credit, Payment, IInv, TypeOK, DataOK
    <3>5. CASE pay = <<F, P>>
      BY <1>1, <1>2, <3>1, <3>5
         DEF Expected, Credit, Payment, IInv, TypeOK, DataOK
    <3> QED
      BY <1>3, <3>2, <3>3, <3>4, <3>5
  <2>2. /\ balance[Escrow] = donated[Escrow] + totalFunded
        /\ \A b \in Addr :
              balance[b] + investors[b] + donated[b] = InitBalance[b]
    BY <1>1, IdleBooks DEF CanEnter
  <2>3. Expected(Escrow)' = donated'[Escrow]
    BY <1>1, <1>2, <2>1, <2>2 DEF Holder, IInv, TypeOK, DataOK
  <2>4. ASSUME NEW b \in Addr
        PROVE  Expected(b)' = balance[b] + Share(b, totalFunded)
    BY <2>1 DEF Holder, Share, f, p
  <2>5. \A b \in Addr : Share(b, totalFunded) \in Int
    BY <1>2 DEF Share, f, p
  <2>6. \A b \in Addr : Expected(b)' + investors'[b] + donated'[b]
                        = InitBalance[b] + Share(b, totalFunded')
    BY <1>1, <2>2, <2>4, <2>5 DEF Holder, IInv, TypeOK, DataOK
  <2> QED
    BY <1>1, <2>3, <2>6 DEF Books, Holder, IInv, TypeOK, DataOK
<1>13. LoopInv' /\ RefundedOwnsNothing'
  BY <1>1 DEF LoopInv, RefundedOwnsNothing, IInv, TypeOK, DataOK
<1> QED
  BY <1>6, <1>7, <1>8, <1>9, <1>10, <1>11, <1>12, <1>13 DEF IInv, TypeOK

LEMMA RefundStep ==
    ASSUME IInv, NEW a \in Addr, RefundAfterExpiry(a)
    PROVE  IInv'
<1> USE AddrAssumption, BoundAssumption
<1> DEFINE n == investors[a]
<1>1. /\ CanEnter /\ ~released /\ operationInProgress' = TRUE
      /\ donated' = donated /\ frozenContributors' = frozenContributors
      /\ balance' = balance /\ released' = released
      /\ totalFunded' = totalFunded - n
      /\ investors' = [investors EXCEPT ![a] = 0]
      /\ refunded' = refunded \cup {a}
      /\ a \notin frozenContributors /\ n > 0
      /\ call' = [op |-> "refund", pay |-> <<Payment(Escrow, a, n)>>,
                  todo |-> {}, loc |-> Current, saved |-> Current]
  BY DEF RefundAfterExpiry, RefundOpen, Enter
<1>2. n \in Int
  BY DEF IInv, TypeOK, DataOK
<1>3. <<Payment(Escrow, a, n)>>
            \in Seq([from : Holder, to : Holder, amount : Int])
  BY <1>2 DEF Payment, Holder
<1>4. CallOK'
  BY <1>1, <1>3, CurrentType DEF CallOK
<1>5. SavedInv'
  BY <1>1, EnterSaved
<1>6. DataOK'
  BY DEF RefundAfterExpiry, IInv, TypeOK, DataOK
<1>7. FlagsOK'
  BY <1>1 DEF RefundAfterExpiry, IInv, TypeOK, FlagsOK
<1>8. PayInv'
  BY <1>1, <1>2 DEF PayInv, Payment
<1>9. FlagInv'
  BY <1>1 DEF FlagInv, Idle
<1>10. Books'
  <2>1. \A h \in Holder : Expected(h)' =
            balance[h] - (IF h = Escrow THEN n ELSE 0)
                       + (IF h = a THEN n ELSE 0)
    BY <1>1, <1>2 DEF Expected, Credit, Payment, IInv, TypeOK, DataOK
  <2>2. /\ balance[Escrow] = donated[Escrow] + totalFunded
        /\ \A b \in Addr :
              balance[b] + investors[b] + donated[b] = InitBalance[b]
    BY <1>1, IdleBooks DEF CanEnter
  <2>3. Expected(Escrow)' = balance[Escrow] - n
    BY <1>2, <2>1 DEF Holder, IInv, TypeOK, DataOK
  <2>4. \A b \in Addr : Expected(b)' = balance[b] + (IF b = a THEN n ELSE 0)
    BY <1>2, <2>1 DEF Holder, IInv, TypeOK, DataOK
  <2>5. \A b \in Addr : Expected(b)' + investors'[b] + donated[b]
                            = InitBalance[b]
    BY <1>1, <1>2, <2>2, <2>4 DEF Holder, IInv, TypeOK, DataOK
  <2> QED
    BY <1>1, <1>2, <2>2, <2>3, <2>5 DEF Books, Holder, IInv, TypeOK, DataOK
<1>11. LoopInv' /\ RefundedOwnsNothing'
  BY <1>1 DEF LoopInv, RefundedOwnsNothing, IInv, TypeOK, DataOK
<1> QED
  BY <1>4, <1>5, <1>6, <1>7, <1>8, <1>9, <1>10, <1>11 DEF IInv, TypeOK

LEMMA RefundAllStep ==
    ASSUME IInv, NEW a \in Addr, RefundAllAfterExpiry(a)
    PROVE  IInv'
<1> USE AddrAssumption, BoundAssumption
<1>1. /\ CanEnter /\ ~released /\ operationInProgress' = TRUE
      /\ donated' = donated /\ frozenContributors' = frozenContributors
      /\ balance' = balance /\ released' = released
      /\ totalFunded' = totalFunded
      /\ investors' = investors /\ refunded' = refunded
      /\ call' = [op |-> "refund_all", pay |-> <<>>,
                  todo |-> Addr, loc |-> Current, saved |-> Current]
  BY DEF RefundAllAfterExpiry, RefundOpen, Enter
<1>2. CallOK'
  BY <1>1, CurrentType DEF CallOK
<1>3. SavedInv'
  BY <1>1, EnterSaved
<1>4. DataOK'
  BY DEF RefundAllAfterExpiry, IInv, TypeOK, DataOK
<1>5. FlagsOK'
  BY <1>1 DEF RefundAllAfterExpiry, IInv, TypeOK, FlagsOK
<1>6. PayInv'
  BY <1>1 DEF PayInv
<1>7. FlagInv'
  BY <1>1 DEF FlagInv, Idle
<1>8. Books'
  <2>1. call.pay = <<>> /\ call'.pay = <<>>
    BY <1>1, IdleBooks DEF CanEnter
  <2>2. \A h : Expected(h)' = balance[h] + 0 + 0
               /\ Expected(h) = balance[h] + 0 + 0
    BY <1>1, <2>1 DEF Expected, Credit
  <2> QED
    BY <1>1, <2>2 DEF IInv, Books
<1>9. LoopInv' /\ RefundedOwnsNothing'
  BY <1>1 DEF LoopInv, RefundedOwnsNothing, IInv, Current
<1> QED
  BY <1>2, <1>3, <1>4, <1>5, <1>6, <1>7, <1>8, <1>9 DEF IInv, TypeOK

LEMMA RefundAllVisitStep ==
    ASSUME IInv, NEW i \in Addr, RefundAllVisit(i)
    PROVE  IInv'
<1> USE AddrAssumption, BoundAssumption
<1> DEFINE n == investors[i]
<1>1. /\ call.op = "refund_all" /\ call.pay = <<>> /\ i \in call.todo
      /\ donated' = donated /\ frozenContributors' = frozenContributors
      /\ balance' = balance /\ released' = released
      /\ operationInProgress' = operationInProgress
      /\ ~released /\ ~Idle
      /\ call.saved.investors[i] = n /\ n \in Int
      /\ call.loc.totalFunded = totalFunded
      /\ call.loc.investors = investors
      /\ call.loc.refunded = refunded
  BY DEF RefundAllVisit, IInv, FlagInv, Idle, LoopInv, TypeOK, DataOK
<1>n. n \in Int
  BY <1>1
<1> HIDE DEF n
<1>2. CASE ~Owed(i)
  <2>1. /\ totalFunded' = totalFunded /\ refunded' = refunded
        /\ investors' = investors
        /\ call' = [call EXCEPT !.todo = @ \ {i}]
    BY <1>2 DEF RefundAllVisit
  <2>2. /\ call'.op = call.op /\ call'.pay = call.pay /\ call'.loc = call.loc
        /\ call'.saved = call.saved /\ call'.todo = call.todo \ {i}
    BY <2>1 DEF IInv, TypeOK, CallOK
  <2>3. CallOK'
    BY <2>1 DEF IInv, TypeOK, CallOK
  <2>4. FlagsOK'
    BY DEF RefundAllVisit, IInv, TypeOK, FlagsOK
  <2>5. DataOK'
    BY <2>1 DEF RefundAllVisit, IInv, TypeOK, DataOK
  <2>6. PayInv' /\ FlagInv' /\ SavedInv' /\ RefundedOwnsNothing'
    BY <1>1, <2>1, <2>2 DEF IInv, PayInv, FlagInv, SavedInv,
                            RefundedOwnsNothing, Idle
  <2>8. investors[i] > 0 => i \in frozenContributors
    BY <1>1, <1>2, <1>n DEF n, Owed, IInv, SavedInv, RefundedOwnsNothing
  <2>9. LoopInv'
    BY <1>1, <2>1, <2>2, <2>8 DEF IInv, LoopInv
  <2>7. Books'
    BY <1>1, <2>1, <2>2 DEF IInv, Books, Expected, Credit
  <2> QED
    BY <2>3, <2>4, <2>5, <2>6, <2>7, <2>9 DEF IInv, TypeOK
<1>3. CASE Owed(i)
  <2> DEFINE loc == [call.loc EXCEPT !.totalFunded = @ - n,
                                     !.refunded    = @ \cup {i},
                                     !.investors   = [@ EXCEPT ![i] = 0]]
  <2>1. /\ totalFunded' = loc.totalFunded /\ refunded' = loc.refunded
        /\ investors' = loc.investors
        /\ call' = [call EXCEPT !.todo = @ \ {i}, !.loc = loc,
                                !.pay = <<Payment(Escrow, i, n)>>]
    BY <1>1, <1>3 DEF RefundAllVisit
  <2>2. call.loc \in Snapshot /\ call.saved \in Snapshot
    BY DEF IInv, TypeOK, CallOK
  <2>3. /\ loc.totalFunded = totalFunded - n
        /\ loc.refunded = refunded \cup {i}
        /\ loc.investors = [investors EXCEPT ![i] = 0]
        /\ loc \in Snapshot
    <3>1. totalFunded - n \in Int /\ refunded \cup {i} \in SUBSET Addr
          /\ [investors EXCEPT ![i] = 0] \in [Addr -> Int]
      BY <1>n DEF IInv, TypeOK, DataOK
    <3>2. loc = [call.loc EXCEPT !.totalFunded = totalFunded - n,
                                 !.refunded    = refunded \cup {i},
                                 !.investors   = [investors EXCEPT ![i] = 0]]
      BY <1>1
    <3> DEFINE x == totalFunded - n
               y == refunded \cup {i}
               z == [investors EXCEPT ![i] = 0]
    <3>3. loc = [call.loc EXCEPT !.totalFunded = x, !.refunded = y,
                                 !.investors = z]
      BY <3>2
    <3>4. x \in Int /\ y \in SUBSET Addr /\ z \in [Addr -> Int]
      BY <3>1
    <3> HIDE DEF loc, x, y, z
    <3>5. /\ loc \in Snapshot
          /\ loc.totalFunded = x /\ loc.refunded = y /\ loc.investors = z
      BY <2>2, <3>3, <3>4 DEF Snapshot
    <3> QED
      BY <3>5 DEF x, y, z
  <2>4. /\ call'.op = call.op /\ call'.pay = <<Payment(Escrow, i, n)>>
        /\ call'.loc = loc
        /\ call'.saved = call.saved /\ call'.todo = call.todo \ {i}
    BY <2>1 DEF IInv, TypeOK, CallOK
  <2> HIDE DEF loc
  <2>5. <<Payment(Escrow, i, n)>>
              \in Seq([from : Holder, to : Holder, amount : Int])
    BY <1>1 DEF Payment, Holder
  <2>6. CallOK'
    BY <2>1, <2>3, <2>5 DEF IInv, TypeOK, CallOK
  <2>7. FlagsOK'
    BY DEF RefundAllVisit, IInv, TypeOK, FlagsOK
  <2>8. DataOK'
    BY <1>1, <2>1, <2>3, SMTT(30) DEF RefundAllVisit, IInv, TypeOK, DataOK
  <2>9. i \notin frozenContributors /\ n > 0
    BY <1>1, <1>3 DEF Owed, IInv, SavedInv
  <2>10. PayInv'
    BY <1>n, <1>1, <2>4, <2>9 DEF PayInv, Payment
  <2>11. FlagInv' /\ SavedInv'
    BY <1>1, <2>4 DEF IInv, FlagInv, SavedInv, Idle
  <2>12. LoopInv' /\ RefundedOwnsNothing'
    BY <1>1, <2>1, <2>3, <2>4, SMTT(30) DEF IInv, LoopInv, RefundedOwnsNothing, TypeOK,
                                  DataOK
  <2>13. Books'
    <3>1. \A h \in Holder : Expected(h) = balance[h]
      BY <1>1 DEF Expected, Credit, IInv, TypeOK, DataOK
    <3>2. \A h \in Holder : Expected(h)' =
              balance[h] - (IF h = Escrow THEN n ELSE 0)
                         + (IF h = i THEN n ELSE 0)
      BY <1>1, <2>4 DEF Expected, Credit, Payment, IInv, TypeOK, DataOK
    <3>3. /\ balance[Escrow] = donated[Escrow] + totalFunded
          /\ \A b \in Addr :
                balance[b] + investors[b] + donated[b] = InitBalance[b]
      BY <1>1, <3>1 DEF IInv, Books, Holder
    <3>4. Expected(Escrow)' = balance[Escrow] - n
      BY <1>n, <3>2 DEF Holder, IInv, TypeOK, DataOK
    <3>5. \A b \in Addr : Expected(b)' = balance[b] + (IF b = i THEN n ELSE 0)
      BY <1>n, <3>2 DEF Holder, IInv, TypeOK, DataOK
    <3>i. /\ investors' = [investors EXCEPT ![i] = 0]
          /\ totalFunded' = totalFunded - n
      BY <2>1, <2>3
    <3>j. n = investors[i] /\ ~released
      BY <1>1 DEF n
    <3>k. donated' = donated /\ released' = released
      BY <1>1
    <3>6. \A b \in Addr : Expected(b)' + investors'[b] + donated[b]
                              = InitBalance[b]
      BY <1>n, <3>i, <3>j, <3>3, <3>5 DEF Holder, IInv, TypeOK, DataOK
    <3> QED
      BY <1>n, <3>i, <3>j, <3>k, <3>3, <3>4, <3>6
         DEF Books, Holder, IInv, TypeOK, DataOK
  <2> QED
    BY <2>6, <2>7, <2>8, <2>10, <2>11, <2>12, <2>13 DEF IInv, TypeOK
<1> QED
  BY <1>2, <1>3

PaymentType == [from : Holder, to : Holder, amount : Int]

LEMMA TransferStep ==
    ASSUME IInv, Transfer
    PROVE  IInv'
<1> USE AddrAssumption, BoundAssumption
<1> DEFINE p == Head(call.pay)
<1>1. /\ call.pay # <<>>
      /\ balance' = [balance EXCEPT ![p.from] = @ - p.amount,
                                    ![p.to]   = @ + p.amount]
      /\ call' = [call EXCEPT !.pay = Tail(@)]
      /\ UNCHANGED <<storage, now, donated>>
  BY DEF Transfer
<1>2. /\ call.pay \in Seq(PaymentType)
      /\ Len(call.pay) <= 2
      /\ \A k \in 1 .. Len(call.pay) :
            /\ call.pay[k].to # call.pay[k].from
            /\ call.pay[k].to \notin frozenContributors
            /\ call.pay[k].amount >= 0
  BY DEF IInv, TypeOK, CallOK, PayInv, PaymentType
<1>3. /\ Len(call.pay) \in 1 .. 2
      /\ p = call.pay[1]
      /\ \A k \in 1 .. Len(call.pay) : call.pay[k] \in PaymentType
  <2>1. Len(call.pay) \in Nat /\ Len(call.pay) # 0
    BY <1>1, <1>2
  <2>2. p = call.pay[1]
    BY <1>1, <1>2
  <2>3. \A k \in 1 .. Len(call.pay) : call.pay[k] \in PaymentType
    BY <1>2
  <2>a. Len(call.pay) <= 2
    BY <1>2
  <2>4. Len(call.pay) \in 1 .. 2
    <3>1. \A x \in Nat : x # 0 /\ x <= 2 => x \in 1 .. 2
      OBVIOUS
    <3> QED
      BY <2>1, <2>a, <3>1, Zenon
  <2> QED
    BY <2>2, <2>3, <2>4
<1>4. /\ Tail(call.pay) \in Seq(PaymentType)
      /\ Len(Tail(call.pay)) = Len(call.pay) - 1
      /\ \A k \in 1 .. Len(call.pay) - 1 : Tail(call.pay)[k] = call.pay[k + 1]
  BY <1>1, <1>2
<1> HIDE DEF p
<1>5. /\ call'.op = call.op /\ call'.pay = Tail(call.pay)
      /\ call'.todo = call.todo
      /\ call'.loc = call.loc /\ call'.saved = call.saved
  BY <1>1 DEF IInv, TypeOK, CallOK
<1>6. p.from \in Holder /\ p.to \in Holder /\ p.amount \in Int /\ p.to # p.from
  <2>1. p \in PaymentType /\ p.to # p.from
    BY <1>2, <1>3
  <2> QED
    BY <2>1 DEF PaymentType
<1>7. CallOK'
  BY <1>1, <1>4 DEF IInv, TypeOK, CallOK, PaymentType
<1>8. FlagsOK'
  BY <1>1 DEF storage, IInv, TypeOK, FlagsOK
<1> DEFINE f == p.from
           g == p.to
           m == p.amount
<1>b. /\ balance' = [balance EXCEPT ![f] = @ - m, ![g] = @ + m]
      /\ f \in Holder /\ g \in Holder /\ m \in Int /\ f # g
  BY <1>1, <1>6
<1>c. balance \in [Holder -> Int]
  BY DEF IInv, TypeOK, DataOK
<1> HIDE DEF f, g, m
<1>d. balance' \in [Holder -> Int]
  BY <1>b, <1>c
<1>9. DataOK'
  BY <1>1, <1>d DEF storage, IInv, TypeOK, DataOK
<1>10. ~Idle
  BY <1>1 DEF IInv, FlagInv
<1>11. PayInv'
  <2>1. \A k \in 1 .. Len(call.pay) - 1 : k + 1 \in 1 .. Len(call.pay)
    BY <1>3
  <2>2. frozenContributors' = frozenContributors
    BY <1>1 DEF storage
  <2> QED
    BY <1>2, <1>3, <1>4, <1>5, <2>1, <2>2 DEF PayInv
<1>12. FlagInv' /\ SavedInv' /\ LoopInv' /\ RefundedOwnsNothing'
  BY <1>1, <1>5, <1>10 DEF storage, IInv, FlagInv, SavedInv, LoopInv,
                           RefundedOwnsNothing, Idle
<1>13. \A h \in Holder : Expected(h)' = Expected(h)
  <2> SUFFICES ASSUME NEW h \in Holder PROVE Expected(h)' = Expected(h)
    OBVIOUS
  <2>0. balance'[h] = balance[h] - (IF f = h THEN m ELSE 0)
                                 + (IF g = h THEN m ELSE 0)
    BY <1>b, <1>c
  <2>1. balance'[h] = balance[h] - (IF p.from = h THEN p.amount ELSE 0)
                                 + (IF p.to = h THEN p.amount ELSE 0)
    BY <2>0 DEF f, g, m
  <2>2. Credit(1, h) = (IF p.to = h THEN p.amount ELSE 0)
                       - (IF p.from = h THEN p.amount ELSE 0)
    BY <1>3 DEF Credit
  <2>3. Credit(1, h)' = Credit(2, h)
    BY <1>3, <1>4, <1>5 DEF Credit
  <2>4. Credit(2, h)' = 0
    BY <1>3, <1>4, <1>5 DEF Credit
  <2>5. Credit(2, h) \in Int
    <3>1. ASSUME 2 <= Len(call.pay)
          PROVE  call.pay[2].amount \in Int
      BY <1>3, <3>1 DEF PaymentType
    <3> QED
      BY <3>1 DEF Credit
  <2>6. balance[h] \in Int
    BY DEF IInv, TypeOK, DataOK
  <2> QED
    BY <1>6, <2>1, <2>2, <2>3, <2>4, <2>5, <2>6 DEF Expected
<1>14. Books'
  BY <1>1, <1>13 DEF storage, IInv, Books, Holder
<1> QED
  BY <1>7, <1>8, <1>9, <1>11, <1>12, <1>14 DEF IInv, TypeOK

LEMMA FinishStep ==
    ASSUME IInv, Finish
    PROVE  IInv'
<1> USE AddrAssumption, BoundAssumption
<1>1. /\ call.op # "none" /\ call.pay = <<>> /\ call.todo = {}
      /\ operationInProgress' = FALSE /\ call' = NoCall
      /\ released' = released /\ balance' = balance /\ donated' = donated
      /\ frozenContributors' = frozenContributors
      /\ totalFunded' = totalFunded /\ refunded' = refunded
      /\ investors' = investors
  BY DEF Finish, IInv, LoopInv
<1>2. call'.op = "none" /\ call'.pay = <<>> /\ call'.todo = {}
  BY <1>1 DEF NoCall
<1>3. Blank \in Snapshot
  BY DEF Blank, Snapshot
<1>4. CallOK'
  BY <1>1, <1>3 DEF NoCall, CallOK
<1>5. FlagsOK'
  BY <1>1 DEF Finish, IInv, TypeOK, FlagsOK
<1>6. DataOK'
  BY <1>1 DEF Finish, IInv, TypeOK, DataOK
<1>7. PayInv' /\ FlagInv' /\ SavedInv' /\ LoopInv' /\ RefundedOwnsNothing'
  BY <1>1, <1>2 DEF IInv, PayInv, FlagInv, SavedInv, LoopInv,
                    RefundedOwnsNothing, Idle
<1>8. Books'
  BY <1>1, <1>2 DEF IInv, Books, Expected, Credit
<1> QED
  BY <1>4, <1>5, <1>6, <1>7, <1>8 DEF IInv, TypeOK

LEMMA AbortStep ==
    ASSUME IInv, Abort
    PROVE  IInv'
<1> USE AddrAssumption, BoundAssumption
<1>1. /\ call.op # "none"
      /\ operationInProgress' = FALSE /\ call' = NoCall
      /\ donated' = donated
      /\ frozenContributors' = frozenContributors
      /\ totalFunded' = call.saved.totalFunded
      /\ investors' = call.saved.investors
      /\ refunded' = call.saved.refunded
      /\ released' = call.saved.released
      /\ balance' = call.saved.balance
  BY DEF Abort
<1>2. call'.op = "none" /\ call'.pay = <<>> /\ call'.todo = {}
  BY <1>1 DEF NoCall
<1>3. Blank \in Snapshot
  BY DEF Blank, Snapshot
<1>4. CallOK'
  BY <1>1, <1>3 DEF NoCall, CallOK
<1>5. call.saved \in Snapshot
  BY DEF IInv, TypeOK, CallOK
<1>6. FlagsOK'
  BY <1>1, <1>5 DEF Abort, IInv, TypeOK, FlagsOK, Snapshot
<1>7. DataOK'
  BY <1>1, <1>5 DEF Abort, IInv, TypeOK, DataOK, Snapshot
<1>8. PayInv' /\ FlagInv' /\ SavedInv' /\ LoopInv' /\ RefundedOwnsNothing'
  BY <1>1, <1>2 DEF IInv, PayInv, FlagInv, SavedInv, LoopInv,
                    RefundedOwnsNothing, Idle
<1>9. Books'
  <2>1. /\ ~released'
        /\ balance'[Escrow] = donated[Escrow] + totalFunded'
        /\ \A a \in Addr :
              balance'[a] + investors'[a] + donated[a] = InitBalance[a]
    BY <1>1 DEF IInv, SavedInv, Idle
  <2>2. \A h \in Holder : Expected(h)' = balance'[h]
    BY <1>2, <1>7 DEF Expected, Credit, DataOK
  <2> QED
    BY <1>1, <1>7, <2>1, <2>2 DEF Books, Holder, DataOK
<1> QED
  BY <1>4, <1>6, <1>7, <1>8, <1>9 DEF IInv, TypeOK

LEMMA DirectTransferStep ==
    ASSUME IInv, NEW a \in Addr, NEW n \in 1 .. MaxAmount, DirectTransfer(a, n)
    PROVE  IInv'
<1> USE AddrAssumption, BoundAssumption
<1>1. /\ Idle /\ call' = call
      /\ balance' = [balance EXCEPT ![a] = @ - n, ![Escrow] = @ + n]
      /\ donated' = [donated EXCEPT ![a] = @ + n, ![Escrow] = @ + n]
      /\ UNCHANGED storage
  BY DEF DirectTransfer, Idle
<1>2. call.pay = <<>>
  BY <1>1 DEF IInv, FlagInv
<1>3. DataOK'
  BY DEF DirectTransfer, storage, IInv, TypeOK, DataOK, Holder
<1>4. FlagsOK'
  BY DEF DirectTransfer, storage, IInv, TypeOK, FlagsOK
<1>5. CallOK' /\ PayInv' /\ FlagInv' /\ SavedInv' /\ LoopInv'
      /\ RefundedOwnsNothing'
  BY <1>1 DEF storage, IInv, TypeOK, CallOK, PayInv, FlagInv, SavedInv,
              LoopInv, RefundedOwnsNothing, Idle
<1>6. Books'
  <2>1. \A h \in Holder : Expected(h) = balance[h] /\ Expected(h)' = balance'[h]
    <3>1. call'.pay = <<>>
      BY <1>1, <1>2
    <3>2. balance \in [Holder -> Int] /\ balance' \in [Holder -> Int]
      BY <1>3 DEF IInv, TypeOK, DataOK
    <3>3. \A h \in Holder : Expected(h) = balance[h]
      BY <1>2, <3>2 DEF Expected, Credit
    <3>4. \A h \in Holder : Expected(h)' = balance'[h]
      BY <3>1, <3>2 DEF Expected, Credit
    <3> QED
      BY <3>3, <3>4
  <2>2. /\ balance'[Escrow] = balance[Escrow] + n
        /\ donated'[Escrow] = donated[Escrow] + n
    BY <1>1 DEF IInv, TypeOK, DataOK, Holder
  <2>3. \A b \in Addr : balance'[b] + donated'[b] = balance[b] + donated[b]
    BY <1>1 DEF IInv, TypeOK, DataOK, Holder
  <2>4. \A b \in Addr : Share(b, totalFunded) \in Int
    BY DEF Share, FarmerAmount, IInv, TypeOK, DataOK
  <2>5. Expected(Escrow)' = donated'[Escrow]
                          + (IF released THEN 0 ELSE totalFunded)
    BY <1>1, <1>3, <2>1, <2>2 DEF IInv, TypeOK, DataOK, Holder, Books
  <2>6. \A b \in Addr : Expected(b)' + investors[b] + donated'[b]
            = InitBalance[b] + (IF released THEN Share(b, totalFunded) ELSE 0)
    BY <1>1, <1>3, <2>1, <2>3, <2>4 DEF IInv, TypeOK, DataOK, Holder, Books
  <2> QED
    BY <1>1, <2>5, <2>6 DEF storage, Books
<1> QED
  BY <1>3, <1>4, <1>5, <1>6 DEF IInv, TypeOK

-----------------------------------------------------------------------------
LEMMA NextIInv == IInv /\ [Next]_vars => IInv'
<1> SUFFICES ASSUME IInv, [Next]_vars PROVE IInv'
  OBVIOUS
<1>1. CASE \E a \in Addr, n \in 1 .. MaxAmount : Fund(a, n)
  BY <1>1, FundStep
<1>2. CASE \/ Initialize \/ Tick
           \/ \E a \in Addr : ApproveDelivery(a) \/ SubmitDeliveryMilestone(a)
           \/ \E a \in Addr, id \in 0 .. MilestoneCount : RecordMilestone(a, id)
           \/ \E a, b \in Addr : FreezeContributor(a, b)
                                 \/ UnfreezeContributor(a, b)
  <2>1. Admin \in Addr /\ 0 \in 0 .. MilestoneCount
    BY AddrAssumption, DealAssumption
  <2> QED
    BY <1>2, <2>1, QuietActions
<1>3. CASE \E a \in Addr : Release(a) \/ SettleEscrow(a)
  <2>1. CanEnter /\ ~released /\ PayOut
    BY <1>3 DEF Release, SettleEscrow
  <2>2. totalFunded > 0
    BY <1>3, DealAssumption DEF Release, SettleEscrow, IInv, TypeOK, DataOK
  <2> QED
    BY <2>1, <2>2, PayOutStep
<1>4. CASE \E a \in Addr : RefundAfterExpiry(a)
  BY <1>4, RefundStep
<1>5. CASE \E a \in Addr : RefundAllAfterExpiry(a)
  BY <1>5, RefundAllStep
<1>6. CASE \E a \in Addr : RefundAllVisit(a)
  BY <1>6, RefundAllVisitStep
<1>7. CASE Transfer
  BY <1>7, TransferStep
<1>8. CASE Finish
  BY <1>8, FinishStep
<1>9. CASE Abort
  BY <1>9, AbortStep
<1>10. CASE \E a \in Addr, n \in 1 .. MaxAmount : DirectTransfer(a, n)
  BY <1>10, DirectTransferStep
<1>11. CASE UNCHANGED vars
  <2>1. FlagsOK'
    BY <1>11 DEF vars, storage, IInv, TypeOK, FlagsOK
  <2>2. DataOK'
    BY <1>11 DEF vars, storage, IInv, TypeOK, DataOK
  <2> QED
    BY <1>11, <2>1, <2>2, QuietStep DEF vars, storage
<1> QED
  BY <1>1, <1>2, <1>3, <1>4, <1>5, <1>6, <1>7, <1>8, <1>9, <1>10, <1>11
     DEF Next

\* The inductive invariant holds in every reachable state.
THEOREM Invariance == Spec => []IInv
  BY InitIInv, NextIInv, PTL DEF Spec

\* Type correctness of the escrow contract for every deal.
THEOREM TypeCorrect == Spec => []TypeOK
<1>1. IInv => TypeOK
  BY DEF IInv
<1> QED
  BY <1>1, Invariance, PTL

LEMMA IdleMeansFree == IInv /\ Idle => ~operationInProgress
  BY DEF IInv, FlagInv

\* The contract always holds exactly what its storage says it holds, whatever
\* callers do between and during transfers.
THEOREM SolvencyHolds == Spec => []Solvency
<1>1. IInv => Solvency
  BY IdleBooks, IdleMeansFree DEF Solvency
<1> QED
  BY <1>1, Invariance, PTL

\* No investor gains or loses by funding, being refunded, or having an
\* invocation rolled back.
THEOREM InvestorsWholeHolds == Spec => []InvestorsWhole
<1>1. IInv => InvestorsWhole
  <2> SUFFICES ASSUME IInv, Idle, NEW a \in Addr \ {Farmer, Platform}
               PROVE  balance[a] + investors[a] + donated[a] = InitBalance[a]
    BY DEF InvestorsWhole
  <2>1. balance[a] + investors[a] + donated[a]
          = InitBalance[a] + (IF released THEN Share(a, totalFunded) ELSE 0)
    BY IdleBooks, IdleMeansFree
  <2>2. Share(a, totalFunded) = 0
    BY DEF Share
  <2> QED
    BY <2>1, <2>2, BoundAssumption
<1> QED
  BY <1>1, Invariance, PTL

\* The farmer and the platform receive the 98% / 2% split exactly once.
THEOREM PayoutExactHolds == Spec => []PayoutExact
<1>1. IInv => PayoutExact
  <2> SUFFICES ASSUME IInv, Idle PROVE PayoutExact
    BY DEF PayoutExact
  <2>1. \A a \in Addr : balance[a] + investors[a] + donated[a]
          = InitBalance[a] + (IF released THEN Share(a, totalFunded) ELSE 0)
    BY IdleBooks, IdleMeansFree
  <2>2. /\ Farmer \in Addr /\ Platform \in Addr /\ Platform # Farmer
        /\ totalFunded \in Int
        /\ FarmerAmount(totalFunded) \in Int
    BY AddrAssumption DEF IInv, TypeOK, DataOK, FarmerAmount
  <2>3. /\ Share(Farmer, totalFunded) = FarmerAmount(totalFunded)
        /\ Share(Platform, totalFunded)
             = totalFunded - FarmerAmount(totalFunded)
    BY <2>2 DEF Share
  <2>4. \A a \in Addr : balance[a] \in Int /\ investors[a] \in Int
                        /\ donated[a] \in Int /\ InitBalance[a] \in Int
    BY BoundAssumption DEF IInv, TypeOK, DataOK, Holder
  <2> HIDE DEF FarmerAmount
  <2> QED
    BY <2>1, <2>2, <2>3, <2>4 DEF PayoutExact
<1> QED
  BY <1>1, Invariance, PTL

\* The Refunded flag never hides a contribution that is still owed.
THEOREM RefundedOwnsNothingHolds == Spec => []RefundedOwnsNothing
<1>1. IInv => RefundedOwnsNothing
  BY DEF IInv
<1> QED
  BY <1>1, Invariance, PTL

\* A payout that has returned is final.
THEOREM ReleaseFinalHolds == Spec => ReleaseFinal
<1>1. IInv /\ [Next]_vars =>
        [Idle /\ released =>
           UNCHANGED <<totalFunded, investors, refunded, released>>]_vars
  <2> SUFFICES ASSUME IInv, Next, Idle, released
               PROVE  UNCHANGED <<totalFunded, investors, refunded, released>>
    BY DEF vars
  <2>1. call.pay = <<>> /\ ~(call.op = "refund_all") /\ ~(call.op # "none")
    BY DEF IInv, FlagInv, Idle
  <2> QED
    BY <2>1 DEF Next, Initialize, Fund, ApproveDelivery,
       SubmitDeliveryMilestone, Release, RecordMilestone, SettleEscrow,
       FreezeContributor, UnfreezeContributor, RefundAfterExpiry, RefundOpen,
       RefundAllAfterExpiry, RefundAllVisit, Transfer, Finish, Abort,
       DirectTransfer, Tick, storage
<1> QED
  BY <1>1, Invariance, PTL DEF Spec, ReleaseFinal

\* A frozen address is never credited by a transfer.
THEOREM FrozenUnpaidHolds == Spec => FrozenUnpaid
<1>1. IInv /\ [Next]_vars =>
        [\A a \in frozenContributors :
            balance'[a] > balance[a] => balance' = call.saved.balance]_vars
  <2> SUFFICES ASSUME IInv, Next, NEW a \in frozenContributors,
                      balance'[a] > balance[a]
               PROVE  balance' = call.saved.balance
    BY DEF vars
  <2>1. a \in Addr /\ a # Escrow /\ balance \in [Holder -> Int]
    BY AddrAssumption DEF IInv, TypeOK, DataOK
  <2>2. balance' # balance
    BY <2>1 DEF Holder
  <2>3. Transfer \/ Abort \/ \E b \in Addr, n \in 1 .. MaxAmount :
                                DirectTransfer(b, n)
    BY <2>2 DEF Next, Initialize, Fund, ApproveDelivery,
       SubmitDeliveryMilestone, Release, RecordMilestone, SettleEscrow, PayOut,
       FreezeContributor, UnfreezeContributor, RefundAfterExpiry,
       RefundAllAfterExpiry, RefundAllVisit, Finish, Tick
  <2>4. CASE Abort
    BY <2>4 DEF Abort
  <2>5. ASSUME NEW b \in Addr, NEW n \in 1 .. MaxAmount, DirectTransfer(b, n)
        PROVE  FALSE
    <3>1. balance' = [balance EXCEPT ![b] = @ - n, ![Escrow] = @ + n]
      BY <2>5 DEF DirectTransfer
    <3> QED
      BY <2>1, <3>1, BoundAssumption, AddrAssumption DEF Holder
  <2>6. CASE Transfer
    <3> DEFINE p == Head(call.pay)
               f == p.from
               g == p.to
               m == p.amount
    <3>1. balance' = [balance EXCEPT ![f] = @ - m, ![g] = @ + m]
      BY <2>6 DEF Transfer
    <3>2. call.pay \in Seq(PaymentType) /\ call.pay # <<>>
      BY <2>6 DEF Transfer, IInv, TypeOK, CallOK, PaymentType
    <3>3. p = call.pay[1] /\ Len(call.pay) \in Nat /\ Len(call.pay) # 0
      BY <3>2
    <3>4. 1 \in 1 .. Len(call.pay)
      BY <3>3
    <3>5. g \notin frozenContributors /\ call.pay[1] \in PaymentType
      BY <3>2, <3>3, <3>4 DEF IInv, PayInv
    <3>6. f \in Holder /\ g \in Holder /\ m \in Int
      BY <3>3, <3>5 DEF PaymentType
    <3>7. m >= 0
      BY <3>3, <3>4 DEF IInv, PayInv
    <3> HIDE DEF f, g, m
    <3> QED
      BY <2>1, <3>1, <3>5, <3>6, <3>7 DEF Holder
  <2> QED
    BY <2>3, <2>4, <2>5, <2>6
<1> QED
  BY <1>1, Invariance, PTL DEF Spec, FrozenUnpaid

\* The loop of the batch refund skips nobody but frozen addresses.
THEOREM BatchRefundCompleteHolds == Spec => BatchRefundComplete
<1>1. IInv /\ [Next]_vars =>
        [call.op = "refund_all" /\ Finish =>
           \A a \in Addr : investors'[a] > 0 => a \in frozenContributors]_vars
  <2> SUFFICES ASSUME IInv, call.op = "refund_all", Finish, NEW a \in Addr,
                      investors'[a] > 0
               PROVE  a \in frozenContributors
    OBVIOUS
  <2>1. call.todo = {} /\ investors' = call.loc.investors
    BY DEF Finish
  <2>2. investors' = investors
    BY <2>1 DEF IInv, LoopInv
  <2> QED
    BY <2>1, <2>2 DEF IInv, LoopInv
<1> QED
  BY <1>1, Invariance, PTL DEF Spec, BatchRefundComplete

-----------------------------------------------------------------------------
(* The refinement of EscrowLedger.                                         *)

\* Contributions add up to TotalFunded, now and in the state that a trap
\* would restore.
SumInv ==
    /\ Total(investors, Addr) = totalFunded
    /\ ~Idle => Total(call.saved.investors, Addr) = call.saved.totalFunded

\* No balance is overdrawn.
NonNeg ==
    /\ \A h \in Holder : balance[h] >= 0
    /\ ~Idle => \A h \in Holder : call.saved.balance[h] >= 0

\* What the invocation in progress has written so far.
Funded(a, n) == investors = [call.saved.investors EXCEPT ![a] = @ + n]
OpInv ==
    /\ call.op = "fund" => \E a \in Addr, n \in Nat \ {0} : Funded(a, n)
    /\ call.op \in {"refund", "refund_all"} =>
          \A a \in Addr : investors[a] \in {0, call.saved.investors[a]}
    /\ call.op = "payout" =>
          /\ investors = call.saved.investors
          /\ totalFunded = call.saved.totalFunded
          /\ totalFunded > 0

RInv == SumInv /\ NonNeg /\ OpInv

LEMMA AddrFinite == IsFiniteSet(Addr)
BY AddrAssumption

LEMMA InitRInv == Init => RInv
<1> SUFFICES ASSUME Init PROVE RInv
  OBVIOUS
<1>1. Idle /\ \A a \in Addr : investors[a] = 0
  BY DEF Init, Idle, NoCall
<1>2. Total(investors, Addr) = totalFunded
  BY <1>1, AddrFinite, TotalZero DEF Init
<1>3. \A h \in Holder : balance[h] >= 0
  BY BoundAssumption DEF Init, Holder
<1> QED BY <1>1, <1>2, <1>3 DEF RInv, SumInv, NonNeg, OpInv, Idle

\* A contribution that changes.
LEMMA SumChange ==
  ASSUME investors \in [Addr -> Int], NEW a \in Addr, NEW n \in Int,
         investors' = [investors EXCEPT ![a] = @ + n],
         Total(investors, Addr) = totalFunded, totalFunded' = totalFunded + n,
         totalFunded \in Int
  PROVE  Total(investors', Addr) = totalFunded'
<1> DEFINE f == investors
           g == investors'
<1>1. \A b \in Addr : f[b] \in Int /\ g[b] \in Int /\ (b # a => g[b] = f[b])
  OBVIOUS
<1>2. g[a] = f[a] + n /\ f[a] \in Int /\ Total(f, Addr) = totalFunded
  OBVIOUS
<1> HIDE DEF f, g
<1>3. Total(g, Addr) = Total(f, Addr) - f[a] + g[a]
  BY <1>1, AddrFinite, TotalExcept
<1>4. ASSUME NEW t \in Int, NEW x \in Int PROVE t - x + (x + n) = t + n
  OBVIOUS
<1>5. Total(g, Addr) = totalFunded + n
  BY <1>2, <1>3, <1>4
<1> QED BY <1>5 DEF g

\* Primed sums.
LEMMA SumThen == Total(investors, Addr)' = Total(investors', Addr)
OBVIOUS

\* Nothing that the refinement looks at has changed.
LEMMA QuietRefines ==
  ASSUME RInv, UNCHANGED <<totalFunded, investors, balance, call>>
  PROVE  RInv'
BY DEF RInv, SumInv, NonNeg, OpInv, Funded, Idle, Holder

\* An entry point saves the state it is entered in.
LEMMA EnterRefines ==
  ASSUME RInv, IInv, CanEnter, NEW op, NEW pay, NEW todo, Enter(op, pay, todo), op # "none",
         UNCHANGED balance
  PROVE  /\ Idle /\ ~Idle' /\ NonNeg' /\ call'.op = op
         /\ call'.saved.investors = investors /\ call'.saved.totalFunded = totalFunded
         /\ call'.saved.balance = balance /\ call'.saved.released = released
         /\ Total(call'.saved.investors, Addr) = call'.saved.totalFunded
<1>1. Idle
  BY DEF CanEnter, IInv, FlagInv
<1>2. /\ call'.op = op /\ call'.saved.investors = investors
      /\ call'.saved.totalFunded = totalFunded /\ call'.saved.balance = balance
      /\ call'.saved.released = released
  BY DEF Enter, Current
<1>3. ~Idle'
  BY <1>2 DEF Idle
<1>4. NonNeg'
  BY <1>2 DEF RInv, NonNeg, Holder
<1> QED BY <1>1, <1>2, <1>3, <1>4 DEF RInv, SumInv

LEMMA FundRefines ==
  ASSUME RInv, IInv, NEW a \in Addr, NEW n \in 1 .. MaxAmount, Fund(a, n)
  PROVE  RInv' /\ Idle /\ ~Idle' /\ call'.saved = Current
<1>1. /\ CanEnter /\ Enter("fund", <<Payment(a, Escrow, n)>>, {}) /\ UNCHANGED balance
      /\ totalFunded' = totalFunded + n /\ investors' = [investors EXCEPT ![a] = @ + n]
  BY DEF Fund
<1>2. n \in Nat \ {0} /\ n \in Int
  BY BoundAssumption
<1>3. investors \in [Addr -> Int] /\ totalFunded \in Int
  BY DEF IInv, TypeOK, DataOK
<1>4. /\ Idle /\ ~Idle' /\ NonNeg' /\ call'.op = "fund" /\ call'.saved.investors = investors
      /\ Total(call'.saved.investors, Addr) = call'.saved.totalFunded
  BY <1>1, EnterRefines
<1>5. Total(investors', Addr) = totalFunded'
  BY <1>1, <1>2, <1>3, SumChange DEF RInv, SumInv
<1>6. SumInv'
  BY <1>4, <1>5 DEF SumInv
<1>7. OpInv'
  <2>1. Funded(a, n)'
    BY <1>1, <1>4 DEF Funded
  <2> QED BY <1>2, <1>4, <2>1 DEF OpInv
<1> QED BY <1>1, <1>4, <1>6, <1>7 DEF RInv, Enter

LEMMA PayOutRefines ==
  ASSUME RInv, IInv, CanEnter, PayOut, totalFunded > 0
  PROVE  RInv' /\ Idle /\ ~Idle' /\ call'.saved = Current
<1>1. Enter("payout", PayoutTransfers(totalFunded), {}) /\ UNCHANGED <<balance, investors, totalFunded>>
  BY DEF PayOut
<1>2. /\ Idle /\ ~Idle' /\ NonNeg' /\ call'.op = "payout" /\ call'.saved.investors = investors
      /\ call'.saved.totalFunded = totalFunded
      /\ Total(call'.saved.investors, Addr) = call'.saved.totalFunded
  BY <1>1, EnterRefines
<1>3. SumInv'
  BY <1>1, <1>2 DEF RInv, SumInv
<1>4. OpInv'
  BY <1>1, <1>2 DEF OpInv
<1> QED BY <1>1, <1>2, <1>3, <1>4 DEF RInv, Enter

LEMMA RefundRefines ==
  ASSUME RInv, IInv, NEW a \in Addr, RefundAfterExpiry(a)
  PROVE  RInv' /\ Idle /\ ~Idle' /\ call'.saved = Current
<1>1. /\ CanEnter /\ Enter("refund", <<Payment(Escrow, a, investors[a])>>, {}) /\ UNCHANGED balance
      /\ totalFunded' = totalFunded - investors[a] /\ investors' = [investors EXCEPT ![a] = 0]
  BY DEF RefundAfterExpiry
<1>2. investors \in [Addr -> Int] /\ totalFunded \in Int
  BY DEF IInv, TypeOK, DataOK
<1>3. /\ Idle /\ ~Idle' /\ NonNeg' /\ call'.op = "refund" /\ call'.saved.investors = investors
      /\ Total(call'.saved.investors, Addr) = call'.saved.totalFunded
  BY <1>1, EnterRefines
<1> DEFINE n == -investors[a]
<1>4. /\ n \in Int /\ investors' = [investors EXCEPT ![a] = @ + n]
      /\ totalFunded' = totalFunded + n
  <2>1. n \in Int /\ investors[a] + n = 0 /\ totalFunded - investors[a] = totalFunded + n
    BY <1>2
  <2> QED BY <1>1, <2>1
<1> HIDE DEF n
<1>5. Total(investors', Addr) = totalFunded'
  BY <1>2, <1>4, SumChange DEF RInv, SumInv
<1>6. SumInv'
  BY <1>3, <1>5 DEF SumInv
<1>7. OpInv'
  BY <1>1, <1>2, <1>3 DEF OpInv
<1> QED BY <1>1, <1>3, <1>6, <1>7 DEF RInv, Enter

LEMMA RefundAllRefines ==
  ASSUME RInv, IInv, NEW a \in Addr, RefundAllAfterExpiry(a)
  PROVE  RInv' /\ Idle /\ ~Idle' /\ call'.saved = Current
<1>1. CanEnter /\ Enter("refund_all", <<>>, Addr) /\ UNCHANGED <<balance, investors, totalFunded>>
  BY DEF RefundAllAfterExpiry
<1>2. /\ Idle /\ ~Idle' /\ NonNeg' /\ call'.op = "refund_all" /\ call'.saved.investors = investors
      /\ Total(call'.saved.investors, Addr) = call'.saved.totalFunded
  BY <1>1, EnterRefines
<1>3. SumInv'
  BY <1>1, <1>2 DEF RInv, SumInv
<1>4. OpInv'
  BY <1>1, <1>2 DEF OpInv
<1> QED BY <1>1, <1>2, <1>3, <1>4 DEF RInv, Enter

\* One pass of the loop: the amount read before it is still the contribution.
LEMMA VisitRefines ==
  ASSUME RInv, IInv, NEW a \in Addr, RefundAllVisit(a)
  PROVE  RInv' /\ ~Idle /\ ~Idle' /\ call'.saved = call.saved
<1>1. call.op = "refund_all" /\ a \in call.todo /\ UNCHANGED balance /\ CallOK
  BY DEF RefundAllVisit, IInv, TypeOK
<1>2. investors \in [Addr -> Int] /\ totalFunded \in Int
  BY DEF IInv, TypeOK, DataOK
<1>3. /\ call.loc.totalFunded = totalFunded /\ call.loc.investors = investors
      /\ call.saved.investors[a] = investors[a]
  BY <1>1 DEF IInv, LoopInv
<1>4. call'.op = call.op /\ call'.saved = call.saved
  <2>1. CASE Owed(a)
    BY <1>1, <2>1 DEF RefundAllVisit, CallOK
  <2>2. CASE ~Owed(a)
    BY <1>1, <2>2 DEF RefundAllVisit, CallOK
  <2> QED BY <2>1, <2>2
<1>5. ~Idle /\ ~Idle'
  BY <1>1, <1>4 DEF Idle
<1>6. NonNeg'
  BY <1>1, <1>4, <1>5 DEF RInv, NonNeg, Holder
<1>7. CASE Owed(a)
  <2>1. totalFunded' = totalFunded - investors[a] /\ investors' = [investors EXCEPT ![a] = 0]
    <3> DEFINE loc == [call.loc EXCEPT !.totalFunded = @ - call.saved.investors[a],
                                       !.refunded    = @ \cup {a},
                                       !.investors   = [@ EXCEPT ![a] = 0]]
    <3>1. totalFunded' = loc.totalFunded /\ investors' = loc.investors
      BY <1>7 DEF RefundAllVisit
    <3>2. call.loc \in Snapshot
      BY <1>1 DEF CallOK
    <3>3. /\ loc.totalFunded = call.loc.totalFunded - call.saved.investors[a]
          /\ loc.investors = [call.loc.investors EXCEPT ![a] = 0]
      BY <3>2 DEF Snapshot
    <3> HIDE DEF loc
    <3> QED BY <1>3, <3>1, <3>3
  <2> DEFINE n == -investors[a]
  <2>2. /\ n \in Int /\ investors' = [investors EXCEPT ![a] = @ + n]
        /\ totalFunded' = totalFunded + n
    <3>1. n \in Int /\ investors[a] + n = 0 /\ totalFunded - investors[a] = totalFunded + n
      BY <1>2
    <3> QED BY <2>1, <3>1
  <2> HIDE DEF n
  <2>3. Total(investors', Addr) = totalFunded'
    BY <1>2, <2>2, SumChange DEF RInv, SumInv
  <2>4. SumInv'
    BY <1>4, <1>5, <2>3 DEF SumInv, RInv
  <2>5. OpInv'
    <3>1. ASSUME NEW b \in Addr PROVE investors'[b] \in {0, call.saved.investors[b]}
      BY <1>1, <1>2, <2>1 DEF RInv, OpInv
    <3> QED BY <1>1, <1>4, <3>1 DEF OpInv
  <2> QED BY <1>4, <1>5, <1>6, <2>4, <2>5 DEF RInv
<1>8. CASE ~Owed(a)
  <2>1. UNCHANGED <<totalFunded, investors>>
    BY <1>8 DEF RefundAllVisit
  <2>2. SumInv' /\ OpInv'
    BY <1>1, <1>4, <1>5, <2>1 DEF RInv, SumInv, OpInv
  <2> QED BY <1>4, <1>5, <1>6, <2>2 DEF RInv
<1> QED BY <1>7, <1>8

\* One transfer moves a natural amount that the payer has.
LEMMA TransferRefines ==
  ASSUME RInv, IInv, Transfer
  PROVE  RInv' /\ ~Idle /\ ~Idle' /\ call'.saved = call.saved
<1> DEFINE p == Head(call.pay)
           f == p.from
           g == p.to
           m == p.amount
<1>1. /\ balance' = [balance EXCEPT ![f] = @ - m, ![g] = @ + m] /\ balance[f] >= m
      /\ UNCHANGED <<totalFunded, investors>> /\ call.pay # <<>>
      /\ call' = [call EXCEPT !.pay = Tail(@)]
  BY DEF Transfer, storage
<1>2. call.pay \in Seq(PaymentType)
  BY DEF IInv, TypeOK, CallOK, PaymentType
<1>3. p = call.pay[1] /\ Len(call.pay) \in Nat /\ Len(call.pay) # 0
  BY <1>1, <1>2
<1>4. 1 \in 1 .. Len(call.pay) /\ call.pay[1] \in PaymentType
  BY <1>2, <1>3
<1>5. f \in Holder /\ g \in Holder /\ m \in Int /\ f # g /\ m >= 0
  <2>1. call.pay[1].to # call.pay[1].from /\ call.pay[1].amount >= 0
    BY <1>4 DEF IInv, PayInv
  <2> QED BY <1>3, <1>4, <2>1 DEF PaymentType
<1>6. balance \in [Holder -> Int]
  BY DEF IInv, TypeOK, DataOK
<1>7. call'.op = call.op /\ call'.saved = call.saved
  BY <1>1 DEF IInv, TypeOK, CallOK
<1>8. ~Idle /\ ~Idle'
  BY <1>1, <1>7 DEF IInv, FlagInv, Idle
<1> HIDE DEF f, g, m
<1>9. ASSUME NEW h \in Holder PROVE balance'[h] >= 0
  <2>1. balance[h] >= 0 /\ balance[f] >= 0 /\ balance[g] >= 0
    BY <1>5 DEF RInv, NonNeg
  <2> QED BY <1>1, <1>5, <1>6, <2>1
<1>10. NonNeg'
  BY <1>7, <1>8, <1>9 DEF RInv, NonNeg, Holder
<1>11. SumInv' /\ OpInv'
  BY <1>1, <1>7, <1>8 DEF RInv, SumInv, OpInv, Funded
<1> QED BY <1>7, <1>8, <1>10, <1>11 DEF RInv

\* A trap restores what was saved.
LEMMA AbortRefines ==
  ASSUME RInv, IInv, Abort
  PROVE  /\ RInv' /\ ~Idle /\ Idle' /\ balance' = call.saved.balance
         /\ investors' = call.saved.investors /\ released' = call.saved.released
<1>1. /\ call.op # "none" /\ totalFunded' = call.saved.totalFunded
      /\ investors' = call.saved.investors /\ balance' = call.saved.balance
      /\ released' = call.saved.released /\ call' = NoCall
  BY DEF Abort
<1>2. ~Idle /\ Idle' /\ call'.op = "none"
  BY <1>1 DEF Idle, NoCall
<1>3. SumInv' /\ NonNeg'
  BY <1>1, <1>2 DEF RInv, SumInv, NonNeg, Holder
<1>4. OpInv'
  BY <1>2 DEF OpInv
<1> QED BY <1>1, <1>2, <1>3, <1>4 DEF RInv

LEMMA DirectRefines ==
  ASSUME RInv, IInv, NEW a \in Addr, NEW n \in 1 .. MaxAmount, DirectTransfer(a, n)
  PROVE  /\ RInv' /\ Idle /\ Idle' /\ n \in 1 .. balance[a]
         /\ balance' = [balance EXCEPT ![a] = @ - n, ![Escrow] = @ + n]
         /\ UNCHANGED <<investors, released>>
<1>1. /\ call.op = "none" /\ balance[a] >= n
      /\ balance' = [balance EXCEPT ![a] = @ - n, ![Escrow] = @ + n]
      /\ UNCHANGED <<totalFunded, investors, released, call>>
  BY DEF DirectTransfer, storage
<1>2. n \in Nat \ {0} /\ balance \in [Holder -> Int] /\ a # Escrow /\ {a, Escrow} \subseteq Holder
  BY BoundAssumption, AddrAssumption DEF IInv, TypeOK, DataOK, Holder
<1>3. Idle /\ Idle'
  BY <1>1 DEF Idle
<1>4. ASSUME NEW h \in Holder PROVE balance'[h] >= 0
  <2>1. balance[h] >= 0
    BY DEF RInv, NonNeg
  <2> QED BY <1>1, <1>2, <2>1
<1>5. NonNeg'
  BY <1>3, <1>4 DEF NonNeg, Holder
<1>6. SumInv' /\ OpInv'
  BY <1>1, <1>3 DEF RInv, SumInv, OpInv, Idle
<1>7. n \in 1 .. balance[a]
  BY <1>1, <1>2
<1> QED BY <1>1, <1>3, <1>5, <1>6, <1>7 DEF RInv

\* The return of an invocation: its storage writes stand, and no transfer is
\* pending.
LEMMA FinishRefines ==
  ASSUME RInv, IInv, Finish
  PROVE  /\ RInv' /\ ~Idle /\ Idle' /\ UNCHANGED <<balance, investors, released, totalFunded>>
         /\ \A h \in Holder : Expected(h) = balance[h]
<1>1. /\ call.op # "none" /\ call.pay = <<>> /\ call' = NoCall /\ UNCHANGED <<balance, released>>
      /\ IF call.op = "refund_all"
         THEN totalFunded' = call.loc.totalFunded /\ investors' = call.loc.investors
         ELSE UNCHANGED <<totalFunded, investors>>
  BY DEF Finish
<1>2. UNCHANGED <<totalFunded, investors>>
  BY <1>1 DEF IInv, LoopInv
<1>3. ~Idle /\ Idle' /\ call'.op = "none"
  BY <1>1 DEF Idle, NoCall
<1>4. RInv'
  BY <1>1, <1>2, <1>3 DEF RInv, SumInv, NonNeg, OpInv, Holder
<1>5. \A h \in Holder : Expected(h) = balance[h]
  BY <1>1 DEF Expected, Credit, IInv, TypeOK, DataOK
<1> QED BY <1>1, <1>2, <1>3, <1>4, <1>5

-----------------------------------------------------------------------------
\* What the ledger shows.
LBalance == IF Idle THEN balance ELSE call.saved.balance
LHeld    == IF Idle THEN investors ELSE call.saved.investors
LSettled == IF Idle THEN released ELSE call.saved.released
Wallet   == [a \in Addr |-> LBalance[a]]
Shown    == <<Wallet, LHeld, LSettled>>

LEMMA ShownFields ==
  Committed.balance = LBalance /\ Committed.investors = LHeld /\ Committed.released = LSettled
BY DEF Committed, Current, LBalance, LHeld, LSettled

LEMMA ShownThen ==
  (Committed.balance = LBalance /\ Committed.investors = LHeld /\ Committed.released = LSettled)'
BY ShownFields, PTL

\* The steps that are no step of the ledger.
LEMMA ShownSame ==
  ASSUME \/ Idle /\ Idle' /\ UNCHANGED <<balance, investors, released>>
         \/ Idle /\ ~Idle' /\ call'.saved = Current
         \/ ~Idle /\ ~Idle' /\ call'.saved = call.saved
         \/ /\ ~Idle /\ Idle' /\ balance' = call.saved.balance
            /\ investors' = call.saved.investors /\ released' = call.saved.released
  PROVE  UNCHANGED Ledger!ledgerVars
<1>1. LBalance' = LBalance /\ LHeld' = LHeld /\ LSettled' = LSettled
  BY DEF LBalance, LHeld, LSettled, Current
<1>2. /\ Committed.balance' = Committed.balance /\ Committed.investors' = Committed.investors
      /\ Committed.released' = Committed.released
  BY <1>1, ShownFields, ShownThen
<1> QED BY <1>2 DEF Ledger!ledgerVars

\* What the ledger's variables are instantiated with.
LEMMA LedgerNow ==
  /\ [a \in Addr |-> Committed.balance[a]] = Wallet
  /\ Committed.investors = LHeld /\ Committed.released = LSettled
BY ShownFields DEF Wallet

LEMMA LedgerThen ==
  (/\ [a \in Addr |-> Committed.balance[a]] = Wallet
   /\ Committed.investors = LHeld /\ Committed.released = LSettled)'
BY LedgerNow, PTL

\* USDC sent to the contract's address without fund is a gift.
LEMMA DirectIsGift ==
  ASSUME RInv, IInv, NEW a \in Addr, NEW n \in 1 .. MaxAmount, DirectTransfer(a, n)
  PROVE  Ledger!Gift(a)
<1>1. /\ Idle /\ Idle' /\ n \in 1 .. balance[a]
      /\ balance' = [balance EXCEPT ![a] = @ - n, ![Escrow] = @ + n]
      /\ UNCHANGED <<investors, released>>
  BY DirectRefines
<1>2. LHeld' = LHeld /\ LSettled' = LSettled
  BY <1>1 DEF LHeld, LSettled
<1>3. Wallet = [b \in Addr |-> balance[b]] /\ Wallet' = [b \in Addr |-> balance'[b]]
  BY <1>1 DEF Wallet, LBalance
<1>4. balance \in [Holder -> Int] /\ Escrow \notin Addr /\ Addr \subseteq Holder /\ Escrow \in Holder
  BY AddrAssumption DEF IInv, TypeOK, DataOK, Holder
<1>5. Wallet' = [Wallet EXCEPT ![a] = @ - n] /\ n \in 1 .. Wallet[a]
  BY <1>1, <1>3, <1>4
<1>6. \E k \in 1 .. Wallet[a] : Wallet' = [Wallet EXCEPT ![a] = @ - k]
  BY <1>5
<1> QED BY <1>2, <1>6, LedgerNow, LedgerThen DEF Ledger!Gift

\* When an invocation returns, a wallet has changed by what the contribution
\* has, and by the share of a payout.
LEMMA WalletThen ==
  ASSUME RInv, IInv, Finish
  PROVE  /\ Wallet = [a \in Addr |-> call.saved.balance[a]]
         /\ Wallet' = [a \in Addr |-> balance[a]]
         /\ LHeld = call.saved.investors /\ LHeld' = investors
         /\ LSettled = FALSE /\ LSettled' = released
         /\ \A a \in Addr :
               /\ balance[a] \in Nat /\ call.saved.balance[a] \in Int
               /\ call.saved.investors[a] \in Int /\ investors[a] \in Int
               /\ balance[a] + investors[a] = call.saved.balance[a] + call.saved.investors[a]
                     + (IF released THEN Share(a, totalFunded) ELSE 0)
<1>1. /\ ~Idle /\ Idle' /\ UNCHANGED <<balance, investors, released, totalFunded>>
      /\ \A h \in Holder : Expected(h) = balance[h]
  BY FinishRefines
<1>2. call.saved \in Snapshot
  BY DEF IInv, TypeOK, CallOK
<1>3. ~call.saved.released /\ call.saved.released \in BOOLEAN
  BY <1>1, <1>2 DEF IInv, SavedInv, Snapshot
<1>4. /\ Wallet = [a \in Addr |-> call.saved.balance[a]]
      /\ Wallet' = [a \in Addr |-> balance[a]]
      /\ LHeld = call.saved.investors /\ LHeld' = investors
  BY <1>1 DEF Wallet, LBalance, LHeld
<1>5. LSettled = FALSE /\ LSettled' = released
  BY <1>1, <1>3 DEF LSettled
<1>6. ASSUME NEW a \in Addr
      PROVE  /\ balance[a] \in Nat /\ call.saved.balance[a] \in Int
             /\ call.saved.investors[a] \in Int /\ investors[a] \in Int
             /\ balance[a] + investors[a] = call.saved.balance[a] + call.saved.investors[a]
                   + (IF released THEN Share(a, totalFunded) ELSE 0)
  <2>1. a \in Holder /\ balance[a] >= 0
    BY DEF Holder, RInv, NonNeg
  <2>2. /\ balance[a] \in Int /\ investors[a] \in Int /\ donated[a] \in Int
        /\ call.saved.balance[a] \in Int /\ call.saved.investors[a] \in Int
        /\ InitBalance[a] \in Int
    BY <1>2, <2>1, BoundAssumption DEF IInv, TypeOK, DataOK, Snapshot
  <2> DEFINE sh == IF released THEN Share(a, totalFunded) ELSE 0
  <2>3. sh \in Int
    <3>1. totalFunded \in Int
      BY DEF IInv, TypeOK, DataOK
    <3> QED BY <3>1 DEF Share, FarmerAmount
  <2>4. balance[a] + investors[a] + donated[a] = InitBalance[a] + sh
    BY <1>1, <2>1 DEF IInv, Books
  <2>5. call.saved.balance[a] + call.saved.investors[a] + donated[a] = InitBalance[a]
    BY <1>1 DEF IInv, SavedInv
  <2> HIDE DEF sh
  <2>6. balance[a] + investors[a] = call.saved.balance[a] + call.saved.investors[a] + sh
    BY <2>2, <2>3, <2>4, <2>5
  <2> QED BY <2>1, <2>2, <2>6 DEF sh
<1> QED BY <1>4, <1>5, <1>6

\* A fund invocation that returns is a deposit.
LEMMA FinishFund ==
  ASSUME RInv, IInv, Finish, call.op = "fund"
  PROVE  \E a \in Addr : Ledger!Deposit(a)
<1>1. PICK a \in Addr, n \in Nat \ {0} : Funded(a, n)
  BY DEF RInv, OpInv
<1> DEFINE sb == call.saved.balance
           si == call.saved.investors
<1>2. ~released
  BY DEF IInv, FlagInv, Idle
<1>3. si \in [Addr -> Int] /\ investors = [si EXCEPT ![a] = @ + n]
  BY <1>1 DEF IInv, TypeOK, CallOK, Snapshot, Funded
<1>4. /\ Wallet = [b \in Addr |-> sb[b]] /\ Wallet' = [b \in Addr |-> balance[b]]
      /\ LHeld = si /\ LHeld' = investors /\ LSettled = FALSE /\ LSettled' = released
      /\ \A b \in Addr : /\ balance[b] \in Nat /\ sb[b] \in Int /\ si[b] \in Int /\ investors[b] \in Int
                         /\ balance[b] + investors[b] = sb[b] + si[b]
  <2>1. \A b \in Addr :
               /\ balance[b] \in Nat /\ sb[b] \in Int
               /\ si[b] \in Int /\ investors[b] \in Int
               /\ balance[b] + investors[b] = sb[b] + si[b]
                     + (IF released THEN Share(b, totalFunded) ELSE 0)
    BY WalletThen
  <2>2. \A b \in Addr : balance[b] + investors[b] = sb[b] + si[b]
    BY <1>2, <2>1
  <2> QED BY <2>1, <2>2, WalletThen
<1> HIDE DEF sb, si
<1>5. ASSUME NEW b \in Addr PROVE balance[b] = IF b = a THEN sb[b] - n ELSE sb[b]
  <2>1. ASSUME NEW x \in Int, NEW y \in Int, NEW z \in Int, x + z = y + z PROVE x = y
    BY <2>1
  <2>2. ASSUME NEW x \in Int, NEW y \in Int, NEW z \in Int, x + (z + n) = y + z PROVE x = y - n
    BY <2>2
  <2>3. investors[b] = IF b = a THEN si[b] + n ELSE si[b]
    BY <1>3
  <2>4. /\ balance[b] \in Int /\ sb[b] \in Int /\ si[b] \in Int
        /\ balance[b] + investors[b] = sb[b] + si[b]
    BY <1>4
  <2> QED BY <2>1, <2>2, <2>3, <2>4
<1>6. Wallet' = [Wallet EXCEPT ![a] = @ - n]
  BY <1>4, <1>5
<1>7. n \in 1 .. Wallet[a]
  BY <1>4, <1>5
<1>8. LHeld' = [LHeld EXCEPT ![a] = @ + n]
  BY <1>3, <1>4
<1>9. LSettled' = LSettled
  <2>1. released \in BOOLEAN
    BY DEF IInv, TypeOK, FlagsOK
  <2> QED BY <1>2, <1>4, <2>1
<1>10. \E k \in 1 .. Wallet[a] : Wallet' = [Wallet EXCEPT ![a] = @ - k]
                                 /\ LHeld' = [LHeld EXCEPT ![a] = @ + k]
  BY <1>6, <1>7, <1>8
<1>11. Ledger!Deposit(a)
  BY <1>4, <1>9, <1>10, LedgerNow, LedgerThen DEF Ledger!Deposit
<1> QED BY <1>11

\* A refund invocation that returns has refunded some investors in full.
LEMMA FinishRefund ==
  ASSUME RInv, IInv, Finish, call.op \in {"refund", "refund_all"}
  PROVE  \E S \in SUBSET Addr : Ledger!Refund(S)
<1> DEFINE sb == call.saved.balance
           si == call.saved.investors
<1> PICK S \in SUBSET Addr : \A a \in Addr : a \in S <=> investors[a] = 0
  <2>1. {a \in Addr : investors[a] = 0} \in SUBSET Addr
    OBVIOUS
  <2> QED BY <2>1
<1>1. ~released
  BY DEF IInv, FlagInv, Idle
<1>2. si \in [Addr -> Int] /\ investors \in [Addr -> Int]
  BY DEF IInv, TypeOK, CallOK, DataOK, Snapshot
<1>3. \A a \in Addr : investors[a] \in {0, si[a]}
  BY DEF RInv, OpInv
<1>4. /\ Wallet = [b \in Addr |-> sb[b]] /\ Wallet' = [b \in Addr |-> balance[b]]
      /\ LHeld = si /\ LHeld' = investors /\ LSettled = FALSE /\ LSettled' = released
      /\ \A b \in Addr : /\ balance[b] \in Nat /\ sb[b] \in Int /\ si[b] \in Int /\ investors[b] \in Int
                         /\ balance[b] + investors[b] = sb[b] + si[b]
  <2>1. \A b \in Addr :
               /\ balance[b] \in Nat /\ sb[b] \in Int
               /\ si[b] \in Int /\ investors[b] \in Int
               /\ balance[b] + investors[b] = sb[b] + si[b]
                     + (IF released THEN Share(b, totalFunded) ELSE 0)
    BY WalletThen
  <2>2. \A b \in Addr : balance[b] + investors[b] = sb[b] + si[b]
    BY <1>1, <2>1
  <2> QED BY <2>1, <2>2, WalletThen
<1> HIDE DEF sb, si
<1>5. ASSUME NEW b \in Addr
      PROVE  /\ balance[b] = sb[b] + (IF b \in S THEN si[b] ELSE 0)
             /\ investors[b] = IF b \in S THEN 0 ELSE si[b]
  <2>1. ASSUME NEW x \in Int, NEW y \in Int, NEW z \in Int, x + 0 = y + z PROVE x = y + z
    BY <2>1
  <2>2. ASSUME NEW x \in Int, NEW y \in Int, NEW z \in Int, x + z = y + z PROVE x = y + 0
    BY <2>2
  <2>3. /\ balance[b] \in Int /\ sb[b] \in Int /\ si[b] \in Int
        /\ balance[b] + investors[b] = sb[b] + si[b]
        /\ b \in S <=> investors[b] = 0
    BY <1>4
  <2>4. CASE investors[b] = 0
    BY <2>1, <2>3, <2>4
  <2>5. CASE investors[b] # 0
    <3>1. investors[b] = si[b]
      BY <1>3, <2>5
    <3> QED BY <2>2, <2>3, <2>5, <3>1
  <2> QED BY <2>4, <2>5
<1>6. Wallet' = [b \in Addr |-> Wallet[b] + IF b \in S THEN LHeld[b] ELSE 0]
  BY <1>4, <1>5
<1>7. LHeld' = [b \in Addr |-> IF b \in S THEN 0 ELSE LHeld[b]]
  BY <1>2, <1>4, <1>5
<1>8. LSettled' = LSettled
  <2>1. released \in BOOLEAN
    BY DEF IInv, TypeOK, FlagsOK
  <2> QED BY <1>1, <1>4, <2>1
<1>9. Ledger!Refund(S)
  BY <1>4, <1>6, <1>7, <1>8, LedgerNow, LedgerThen DEF Ledger!Refund
<1> QED BY <1>9

\* A payout that returns has settled everything held.
LEMMA FinishPayout ==
  ASSUME RInv, IInv, Finish, call.op = "payout"
  PROVE  Ledger!Settle
<1> DEFINE sb == call.saved.balance
           si == call.saved.investors
           t == totalFunded
           w == FarmerAmount(t)
<1>1. released /\ ~Idle
  BY DEF IInv, FlagInv, Idle
<1>2. si \in [Addr -> Int] /\ investors = si /\ t = call.saved.totalFunded /\ t > 0
        /\ t \in Int /\ released = TRUE
  BY <1>1 DEF IInv, TypeOK, CallOK, DataOK, FlagsOK, Snapshot, RInv, OpInv
<1>3. Ledger!Held = t
  <2>1. Total(si, Addr) = t
    BY <1>1, <1>2 DEF RInv, SumInv
  <2>2. Ledger!Held = Total(Committed.investors, DOMAIN Committed.investors)
    BY DEF Ledger!Held, Ledger!FoldFunction, Ledger!FoldFunctionOnSet, Ledger!MapThenFoldSet,
           Total, MapThenSumSet, MapThenFoldSet
  <2>3. DOMAIN si = Addr
    BY <1>2
  <2>4. Committed.investors = si
    BY <1>1 DEF Committed
  <2> QED BY <2>1, <2>2, <2>3, <2>4
<1>4. /\ Wallet = [b \in Addr |-> sb[b]] /\ Wallet' = [b \in Addr |-> balance[b]]
      /\ LHeld = si /\ LHeld' = investors /\ LSettled = FALSE /\ LSettled' = TRUE
      /\ \A b \in Addr : /\ balance[b] \in Nat /\ sb[b] \in Int /\ si[b] \in Int /\ investors[b] \in Int
                         /\ balance[b] + investors[b] = sb[b] + si[b] + Share(b, t)
  <2>1. \A b \in Addr :
               /\ balance[b] \in Nat /\ sb[b] \in Int
               /\ si[b] \in Int /\ investors[b] \in Int
               /\ balance[b] + investors[b] = sb[b] + si[b]
                     + (IF released THEN Share(b, totalFunded) ELSE 0)
    BY WalletThen
  <2>2. \A b \in Addr : balance[b] + investors[b] = sb[b] + si[b] + Share(b, t)
    BY <1>2, <2>1
  <2> QED BY <1>2, <2>1, <2>2, WalletThen
<1>5. w \in Int /\ w = (t * 98) \div 100
  BY <1>2 DEF FarmerAmount
<1> HIDE DEF sb, si, t, w
<1>6. Farmer \in Addr /\ Platform \in Addr /\ Farmer # Platform
  BY AddrAssumption
<1>7. ASSUME NEW b \in Addr
      PROVE  balance[b] = IF b = Farmer THEN sb[b] + w
                          ELSE IF b = Platform THEN sb[b] + (t - w) ELSE sb[b]
  <2>1. Share(b, t) = IF b = Farmer THEN w ELSE IF b = Platform THEN t - w ELSE 0
    BY DEF Share, w
  <2>2. ASSUME NEW x \in Int, NEW y \in Int, NEW z \in Int, NEW v \in Int, x + z = y + z + v
        PROVE  x = y + v
    BY <2>2
  <2>3. /\ balance[b] \in Int /\ sb[b] \in Int /\ si[b] \in Int
        /\ balance[b] + si[b] = sb[b] + si[b] + Share(b, t)
    BY <1>2, <1>4
  <2>4. Share(b, t) \in Int
    BY <1>2, <1>5, <2>1
  <2>5. balance[b] = sb[b] + Share(b, t)
    BY <2>2, <2>3, <2>4
  <2> QED BY <2>1, <2>3, <2>5
<1>8. Wallet' = [Wallet EXCEPT ![Farmer] = @ + w, ![Platform] = @ + (t - w)]
  BY <1>4, <1>6, <1>7
<1>9. LHeld' = LHeld
  BY <1>2, <1>4
<1>10. (Ledger!Held * 98) \div 100 = w /\ Ledger!Held > 0
  BY <1>2, <1>3, <1>5
<1>11. Ledger!Held - w = t - w
  BY <1>3
<1> QED BY <1>4, <1>8, <1>9, <1>10, <1>11, LedgerNow, LedgerThen DEF Ledger!Settle

\* Every step of the contract is a step of the ledger or leaves it alone.
LEMMA NextRefines ==
  RInv /\ IInv /\ [Next]_vars => RInv' /\ [Ledger!LedgerNext]_Ledger!ledgerVars
<1> SUFFICES ASSUME RInv, IInv, [Next]_vars
             PROVE  RInv' /\ [Ledger!LedgerNext]_Ledger!ledgerVars
  OBVIOUS
<1> DEFINE Goal == RInv' /\ [Ledger!LedgerNext]_Ledger!ledgerVars
<1>1. ASSUME UNCHANGED <<totalFunded, investors, balance, call, released>> PROVE Goal
  <2>1. Idle' <=> Idle
    BY <1>1 DEF Idle
  <2>2. Idle => UNCHANGED Ledger!ledgerVars
    BY <1>1, <2>1, ShownSame
  <2>3. ~Idle => UNCHANGED Ledger!ledgerVars
    BY <1>1, <2>1, ShownSame
  <2> QED BY <1>1, <2>2, <2>3, QuietRefines
<1>2. ASSUME NEW a \in Addr, NEW n \in 1 .. MaxAmount, Fund(a, n) PROVE Goal
  BY <1>2, FundRefines, ShownSame
<1>3. ASSUME \/ Initialize \/ Tick \/ UNCHANGED vars
             \/ \E a \in Addr : ApproveDelivery(a) \/ SubmitDeliveryMilestone(a)
             \/ \E a \in Addr, id \in 0 .. MilestoneCount : RecordMilestone(a, id)
             \/ \E a, b \in Addr : FreezeContributor(a, b) \/ UnfreezeContributor(a, b)
      PROVE  UNCHANGED <<totalFunded, investors, balance, call, released>>
  BY <1>3 DEF Initialize, Tick, vars, storage, ApproveDelivery, SubmitDeliveryMilestone,
              RecordMilestone, FreezeContributor, UnfreezeContributor
<1>4. ASSUME NEW a \in Addr, Release(a) \/ SettleEscrow(a) PROVE Goal
  <2>1. CanEnter /\ PayOut
    BY <1>4 DEF Release, SettleEscrow
  <2>2. totalFunded > 0
    BY <1>4, DealAssumption DEF Release, SettleEscrow, IInv, TypeOK, DataOK
  <2> QED BY <2>1, <2>2, PayOutRefines, ShownSame
<1>5. ASSUME NEW a \in Addr, RefundAfterExpiry(a) PROVE Goal
  BY <1>5, RefundRefines, ShownSame
<1>6. ASSUME NEW a \in Addr, RefundAllAfterExpiry(a) PROVE Goal
  BY <1>6, RefundAllRefines, ShownSame
<1>7. ASSUME NEW a \in Addr, RefundAllVisit(a) PROVE Goal
  BY <1>7, VisitRefines, ShownSame
<1>8. ASSUME Transfer PROVE Goal
  BY <1>8, TransferRefines, ShownSame
<1>9. ASSUME Abort PROVE Goal
  BY <1>9, AbortRefines, ShownSame
<1>10. ASSUME NEW a \in Addr, NEW n \in 1 .. MaxAmount, DirectTransfer(a, n) PROVE Goal
  <2>1. Ledger!Gift(a) /\ RInv'
    BY <1>10, DirectIsGift, DirectRefines
  <2> QED BY <2>1 DEF Ledger!LedgerNext
<1>11. ASSUME Finish PROVE Goal
  <2>1. RInv' /\ ~Idle
    BY <1>11, FinishRefines
  <2>2. call.op \in {"fund", "payout", "refund", "refund_all"}
    BY <2>1 DEF IInv, TypeOK, CallOK, Idle
  <2>3. CASE call.op = "fund"
    BY <1>11, <2>1, <2>3, FinishFund DEF Ledger!LedgerNext
  <2>4. CASE call.op \in {"refund", "refund_all"}
    BY <1>11, <2>1, <2>4, FinishRefund DEF Ledger!LedgerNext
  <2>5. CASE call.op = "payout"
    BY <1>11, <2>1, <2>5, FinishPayout DEF Ledger!LedgerNext
  <2> QED BY <2>2, <2>3, <2>4, <2>5
<1> HIDE DEF Goal
<1>12. Goal
  BY <1>1, <1>2, <1>3, <1>4, <1>5, <1>6, <1>7, <1>8, <1>9, <1>10, <1>11 DEF Next
<1> QED BY <1>12 DEF Goal

LEMMA InitRefines == Init => Ledger!LedgerInit
<1> SUFFICES ASSUME Init PROVE Ledger!LedgerInit
  OBVIOUS
<1>1. Idle /\ investors = [a \in Addr |-> 0] /\ released = FALSE
        /\ balance = [h \in Holder |-> IF h = Escrow THEN 0 ELSE InitBalance[h]]
  BY DEF Init, Idle, NoCall
<1>2. Wallet = InitBalance
  BY <1>1, AddrAssumption, BoundAssumption DEF Wallet, LBalance, Holder
<1>3. LHeld = [a \in Addr |-> 0] /\ LSettled = FALSE
  BY <1>1 DEF LHeld, LSettled
<1> QED BY <1>2, <1>3, LedgerNow DEF Ledger!LedgerInit

\* The contract, whatever its transfers call back and wherever they trap,
\* implements the ledger of atomic deposits, refunds, gifts and one settlement,
\* for every set of accounts, deal value, deadline and number of milestones.
THEOREM ImplementsLedgerHolds == Spec => ImplementsLedger
<1>1. RInv /\ IInv /\ [Next]_vars => RInv'
  BY NextRefines
<1>2. RInv /\ IInv /\ [Next]_vars => [Ledger!LedgerNext]_Ledger!ledgerVars
  BY NextRefines
<1> QED
  BY <1>1, <1>2, InitRInv, InitRefines, Invariance, PTL
     DEF Spec, ImplementsLedger, Ledger!LedgerSpec

\* The contributions add up to TotalFunded in every state, between the
\* transfers of a batch refund and after every rollback too.
THEOREM BooksBalanceHolds == Spec => []BooksBalance
<1>1. RInv /\ IInv => BooksBalance
  <2> SUFFICES ASSUME RInv, IInv PROVE BooksBalance
    OBVIOUS
  <2>1. FoldFunction(+, 0, investors) = Total(investors, DOMAIN investors)
    BY FoldTotal
  <2>2. DOMAIN investors = Addr /\ Total(investors, Addr) = totalFunded
    BY DEF IInv, TypeOK, DataOK, RInv, SumInv
  <2> QED BY <2>1, <2>2 DEF BooksBalance
<1>2. RInv /\ IInv /\ [Next]_vars => RInv'
  BY NextRefines
<1> QED
  BY <1>1, <1>2, InitRInv, Invariance, PTL DEF Spec
=============================================================================
