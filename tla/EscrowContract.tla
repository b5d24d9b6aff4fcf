--------------------------- MODULE EscrowContract ---------------------------
(***************************************************************************)
(* The Soroban escrow contract of one trade deal.                          *)
(*                                                                         *)
(* Every entry point runs inside one host invocation.  An invocation that  *)
(* moves USDC hands control to the token contract, so it is split at its   *)
(* transfers: a Begin action makes the storage writes that precede the     *)
(* first transfer, Transfer performs one transfer, Finish is the return.   *)
(* A transfer that traps aborts the invocation and the host restores the   *)
(* storage and the balances (Abort).  The contract does not rely on the    *)
(* host to keep other calls out while a transfer runs: the flag            *)
(* operationInProgress does, and the model lets every entry point be       *)
(* tried at every moment.                                                  *)
(*                                                                         *)
(* Amounts are in stroops.  An investors-map entry that is absent reads as *)
(* 0 (unwrap_or(0)), so the map is a total function.                       *)
(***************************************************************************)
EXTENDS Integers, Sequences, FiniteSets

CONSTANTS
    Addr,            \* accounts: investors, admin, farmer, platform, others
    Admin,
    Farmer,
    Platform,
    Escrow,          \* env.current_contract_address()
    DealValue,       \* the arguments of initialize
    MilestoneCount,
    Deadline,
    InitBalance,     \* USDC each account starts with
    MaxTime,         \* bound on the ledger clock
    MaxAmount        \* bound on the amount of one fund or direct transfer

ASSUME AddrAssumption ==
    /\ IsFiniteSet(Addr)
    /\ {Admin, Farmer, Platform} \subseteq Addr
    /\ Farmer # Platform
    /\ Escrow \notin Addr

\* The checks of initialize on its arguments.
ASSUME DealAssumption ==
    /\ DealValue \in Nat \ {0}
    /\ MilestoneCount \in Nat \ {0}
    /\ Deadline \in Nat

ASSUME BoundAssumption ==
    /\ InitBalance \in [Addr -> Nat]
    /\ MaxTime \in Nat
    /\ MaxAmount \in Nat

VARIABLES
    initialized,
    totalFunded,
    investors,           \* address -> contribution held for it
    refunded,            \* addresses whose Refunded flag is true
    released,
    operationInProgress,
    deliveryApproved,
    milestoneData,       \* milestone ids recorded so far
    milestonesCompleted,
    frozenContributors,
    balance,             \* the USDC token contract
    now,                 \* ledger timestamp
    call,                \* the invocation that is at a transfer
    donated              \* history: USDC that reached Escrow without fund, by
                         \* sender, and the total under Escrow itself

storage == <<initialized, totalFunded, investors, refunded, released,
             operationInProgress, deliveryApproved, milestoneData,
             milestonesCompleted, frozenContributors>>
vars == <<storage, balance, now, call, donated>>

Holder == Addr \cup {Escrow}
Milestones == 0 .. MilestoneCount - 1

-----------------------------------------------------------------------------
(* Invocations.                                                            *)

\* What the host restores on a trap; the first three fields are also the
\* local copies that refund_all_after_expiry works on.
Snapshot == [totalFunded : Int, investors : [Addr -> Int],
             refunded : SUBSET Addr, released : BOOLEAN,
             frozen : SUBSET Addr, balance : [Holder -> Int]]

Current == [totalFunded |-> totalFunded, investors |-> investors,
            refunded |-> refunded, released |-> released,
            frozen |-> frozenContributors, balance |-> balance]

Blank == [totalFunded |-> 0, investors |-> [a \in Addr |-> 0],
          refunded |-> {}, released |-> FALSE, frozen |-> {},
          balance |-> [h \in Holder |-> 0]]

NoCall == [op |-> "none", pay |-> <<>>, todo |-> {},
           loc |-> Blank, saved |-> Blank]

Payment(from, to, amount) == [from |-> from, to |-> to, amount |-> amount]

\* The flag is set, and the first transfer of the invocation is next.
Enter(op, pay, todo) ==
    /\ operationInProgress' = TRUE
    /\ call' = [op |-> op, pay |-> pay, todo |-> todo,
                loc |-> Current, saved |-> Current]

-----------------------------------------------------------------------------
Init ==
    /\ initialized = FALSE
    /\ totalFunded = 0
    /\ investors = [a \in Addr |-> 0]
    /\ refunded = {}
    /\ released = FALSE
    /\ operationInProgress = FALSE
    /\ deliveryApproved = FALSE
    /\ milestoneData = {}
    /\ milestonesCompleted = 0
    /\ frozenContributors = {}
    /\ balance = [h \in Holder |-> IF h = Escrow THEN 0 ELSE InitBalance[h]]
    /\ now = 0
    /\ call = NoCall
    /\ donated = [h \in Holder |-> 0]

\* initialize: the values it stores are the ones the variables start with.
Initialize ==
    /\ ~initialized
    /\ initialized' = TRUE
    /\ UNCHANGED <<totalFunded, investors, refunded, released,
                   operationInProgress, deliveryApproved, milestoneData,
                   milestonesCompleted, frozenContributors,
                   balance, now, call, donated>>

\* Mutant: the re-entrancy flag is not looked at.
CanEnter_NoFlag == initialized

\* What every state-changing entry point checks first.
CanEnter == initialized /\ ~operationInProgress

\* Mutants: a second contribution replaces the first; funding stays open after
\* the payout.
Fund_Replaces(caller, amount) ==
    /\ CanEnter
    /\ amount > 0
    /\ ~released
    /\ totalFunded' = totalFunded + amount
    /\ investors' = [investors EXCEPT ![caller] = amount]
    /\ refunded' = refunded \ {caller}
    /\ Enter("fund", <<Payment(caller, Escrow, amount)>>, {})
    /\ UNCHANGED <<initialized, released, deliveryApproved, milestoneData,
                   milestonesCompleted, frozenContributors,
                   balance, now, donated>>

Fund_AfterRelease(caller, amount) ==
    /\ CanEnter
    /\ amount > 0
    /\ totalFunded' = totalFunded + amount
    /\ investors' = [investors EXCEPT ![caller] = @ + amount]
    /\ refunded' = refunded \ {caller}
    /\ Enter("fund", <<Payment(caller, Escrow, amount)>>, {})
    /\ UNCHANGED <<initialized, released, deliveryApproved, milestoneData,
                   milestonesCompleted, frozenContributors,
                   balance, now, donated>>

Fund(caller, amount) ==
    /\ CanEnter
    /\ amount > 0
    /\ ~released
    /\ totalFunded' = totalFunded + amount
    /\ investors' = [investors EXCEPT ![caller] = @ + amount]
    /\ refunded' = refunded \ {caller}
    /\ Enter("fund", <<Payment(caller, Escrow, amount)>>, {})
    /\ UNCHANGED <<initialized, released, deliveryApproved, milestoneData,
                   milestonesCompleted, frozenContributors,
                   balance, now, donated>>

ApproveDelivery(caller) ==
    /\ CanEnter
    /\ caller = Admin
    /\ deliveryApproved' = TRUE
    /\ UNCHANGED <<initialized, totalFunded, investors, refunded, released,
                   operationInProgress, milestoneData, milestonesCompleted,
                   frozenContributors, balance, now, call, donated>>

SubmitDeliveryMilestone(caller) ==
    /\ CanEnter
    /\ caller \in {Admin, Farmer}
    /\ deliveryApproved' = TRUE
    /\ UNCHANGED <<initialized, totalFunded, investors, refunded, released,
                   operationInProgress, milestoneData, milestonesCompleted,
                   frozenContributors, balance, now, call, donated>>

FarmerAmount(total) == (total * 98) \div 100

\* Mutant: the two shares are swapped.
PayoutTransfers_Swapped(total) ==
    LET p == FarmerAmount(total)
        f == total - p
        toFarmer   == Payment(Escrow, Farmer, f)
        toPlatform == Payment(Escrow, Platform, p)
    IN  CASE f > 0 /\ p > 0 -> <<toFarmer, toPlatform>>
          [] f > 0 /\ p = 0 -> <<toFarmer>>
          [] f = 0 /\ p > 0 -> <<toPlatform>>
          [] OTHER -> <<>>

\* The two transfers of release and settle_escrow, without the empty ones.
PayoutTransfers(total) ==
    LET f == FarmerAmount(total)
        p == total - f
        toFarmer   == Payment(Escrow, Farmer, f)
        toPlatform == Payment(Escrow, Platform, p)
    IN  CASE f > 0 /\ p > 0 -> <<toFarmer, toPlatform>>
          [] f > 0 /\ p = 0 -> <<toFarmer>>
          [] f = 0 /\ p > 0 -> <<toPlatform>>
          [] OTHER -> <<>>

\* The common tail of release and settle_escrow.
PayOut ==
    /\ {Farmer, Platform} \cap frozenContributors = {}
    /\ released' = TRUE
    /\ Enter("payout", PayoutTransfers(totalFunded), {})
    /\ UNCHANGED <<initialized, totalFunded, investors, refunded,
                   deliveryApproved, milestoneData, milestonesCompleted,
                   frozenContributors, balance, now, donated>>

Release(caller) ==
    /\ CanEnter
    /\ caller = Admin
    /\ ~released
    /\ deliveryApproved
    /\ totalFunded > 0
    /\ PayOut

RecordMilestone(caller, id) ==
    /\ CanEnter
    /\ caller \in {Admin, Farmer}
    /\ id < MilestoneCount
    /\ id \notin milestoneData
    /\ milestoneData' = milestoneData \cup {id}
    /\ milestonesCompleted' = milestonesCompleted + 1
    /\ UNCHANGED <<initialized, totalFunded, investors, refunded, released,
                   operationInProgress, deliveryApproved,
                   frozenContributors, balance, now, call, donated>>

SettleEscrow(caller) ==
    /\ CanEnter
    /\ caller = Admin
    /\ ~released
    /\ milestonesCompleted >= MilestoneCount
    /\ totalFunded >= DealValue
    /\ PayOut

FreezeContributor(caller, a) ==
    /\ CanEnter
    /\ caller = Admin
    /\ frozenContributors' = frozenContributors \cup {a}
    /\ UNCHANGED <<initialized, totalFunded, investors, refunded, released,
                   operationInProgress, deliveryApproved, milestoneData,
                   milestonesCompleted, balance, now, call, donated>>

UnfreezeContributor(caller, a) ==
    /\ CanEnter
    /\ caller = Admin
    /\ a \in frozenContributors
    /\ frozenContributors' = frozenContributors \ {a}
    /\ UNCHANGED <<initialized, totalFunded, investors, refunded, released,
                   operationInProgress, deliveryApproved, milestoneData,
                   milestonesCompleted, balance, now, call, donated>>

TargetMet == totalFunded >= DealValue

RefundOpen == now > Deadline /\ ~released /\ ~TargetMet

\* Mutants: TotalFunded is not reduced; the investor's entry is not cleared.
RefundAfterExpiry_KeepsTotal(a) ==
    /\ CanEnter
    /\ a \notin refunded
    /\ RefundOpen
    /\ investors[a] > 0
    /\ a \notin frozenContributors
    /\ totalFunded >= investors[a]
    /\ refunded' = refunded \cup {a}
    /\ investors' = [investors EXCEPT ![a] = 0]
    /\ UNCHANGED totalFunded
    /\ Enter("refund", <<Payment(Escrow, a, investors[a])>>, {})
    /\ UNCHANGED <<initialized, released, deliveryApproved, milestoneData,
                   milestonesCompleted, frozenContributors,
                   balance, now, donated>>

RefundAfterExpiry_KeepsEntry(a) ==
    /\ CanEnter
    /\ a \notin refunded
    /\ RefundOpen
    /\ investors[a] > 0
    /\ a \notin frozenContributors
    /\ totalFunded >= investors[a]
    /\ refunded' = refunded \cup {a}
    /\ UNCHANGED investors
    /\ totalFunded' = totalFunded - investors[a]
    /\ Enter("refund", <<Payment(Escrow, a, investors[a])>>, {})
    /\ UNCHANGED <<initialized, released, deliveryApproved, milestoneData,
                   milestonesCompleted, frozenContributors,
                   balance, now, donated>>

RefundAfterExpiry(a) ==
    /\ CanEnter
    /\ a \notin refunded
    /\ RefundOpen
    /\ investors[a] > 0
    /\ a \notin frozenContributors
    /\ totalFunded >= investors[a]
    /\ refunded' = refunded \cup {a}
    /\ investors' = [investors EXCEPT ![a] = 0]
    /\ totalFunded' = totalFunded - investors[a]
    /\ Enter("refund", <<Payment(Escrow, a, investors[a])>>, {})
    /\ UNCHANGED <<initialized, released, deliveryApproved, milestoneData,
                   milestonesCompleted, frozenContributors,
                   balance, now, donated>>

RefundAllAfterExpiry(caller) ==
    /\ CanEnter
    /\ caller = Admin
    /\ RefundOpen
    /\ Enter("refund_all", <<>>, Addr)
    /\ UNCHANGED <<initialized, totalFunded, investors, refunded, released,
                   deliveryApproved, milestoneData, milestonesCompleted,
                   frozenContributors, balance, now, donated>>

\* Mutant: off by one in the comparison.
Owed_OffByOne(i) ==
    /\ call.saved.investors[i] > 1
    /\ i \notin call.loc.refunded
    /\ i \notin call.saved.frozen

\* One pass of the loop: amounts and the frozen map were read before it.
Owed(i) ==
    /\ call.saved.investors[i] > 0
    /\ i \notin call.loc.refunded
    /\ i \notin call.saved.frozen

RefundAllVisit(i) ==
    /\ call.op = "refund_all"
    /\ call.pay = <<>>
    /\ i \in call.todo
    /\ IF Owed(i)
       THEN LET amount == call.saved.investors[i]
                loc == [call.loc EXCEPT
                          !.totalFunded = @ - amount,
                          !.refunded    = @ \cup {i},
                          !.investors   = [@ EXCEPT ![i] = 0]]
            IN  /\ call.loc.totalFunded >= amount
                /\ totalFunded' = loc.totalFunded
                /\ refunded' = loc.refunded
                /\ investors' = loc.investors
                /\ call' = [call EXCEPT !.todo = @ \ {i}, !.loc = loc,
                              !.pay = <<Payment(Escrow, i, amount)>>]
       ELSE /\ call' = [call EXCEPT !.todo = @ \ {i}]
            /\ UNCHANGED <<totalFunded, refunded, investors>>
    /\ UNCHANGED <<initialized, released, operationInProgress,
                   deliveryApproved, milestoneData, milestonesCompleted,
                   frozenContributors, balance, now, donated>>

\* token.transfer: moves the amount if the payer has it.
Transfer ==
    /\ call.pay # <<>>
    /\ LET p == Head(call.pay)
       IN  /\ balance[p.from] >= p.amount
           /\ balance' = [balance EXCEPT ![p.from] = @ - p.amount,
                                         ![p.to]   = @ + p.amount]
    /\ call' = [call EXCEPT !.pay = Tail(@)]
    /\ UNCHANGED <<storage, now, donated>>

\* The flag is cleared after the last transfer, and the call returns Ok.
\* refund_all_after_expiry then writes its local copies once more.
Finish ==
    /\ call.op # "none"
    /\ call.pay = <<>>
    /\ call.todo = {}
    /\ operationInProgress' = FALSE
    /\ IF call.op = "refund_all"
       THEN /\ totalFunded' = call.loc.totalFunded
            /\ refunded' = call.loc.refunded
            /\ investors' = call.loc.investors
       ELSE UNCHANGED <<totalFunded, refunded, investors>>
    /\ call' = NoCall
    /\ UNCHANGED <<initialized, released, deliveryApproved, milestoneData,
                   milestonesCompleted, frozenContributors, balance, now,
                   donated>>

\* A transfer traps (no trustline, too small a balance) or the loop returns
\* BalanceInsufficient: the host undoes the whole invocation.
Abort ==
    /\ call.op # "none"
    /\ totalFunded' = call.saved.totalFunded
    /\ investors' = call.saved.investors
    /\ refunded' = call.saved.refunded
    /\ released' = call.saved.released
    /\ balance' = call.saved.balance
    /\ operationInProgress' = FALSE
    /\ call' = NoCall
    /\ UNCHANGED <<initialized, deliveryApproved, milestoneData,
                   milestonesCompleted, frozenContributors, now, donated>>

\* Anyone can send USDC to the contract's address without calling fund.
DirectTransfer(a, amount) ==
    /\ call.op = "none"
    /\ amount > 0
    /\ balance[a] >= amount
    /\ balance' = [balance EXCEPT ![a] = @ - amount, ![Escrow] = @ + amount]
    /\ donated' = [donated EXCEPT ![a] = @ + amount, ![Escrow] = @ + amount]
    /\ UNCHANGED <<storage, now, call>>

\* Ledgers close between transactions.
Tick ==
    /\ call.op = "none"
    /\ now < MaxTime
    /\ now' = now + 1
    /\ UNCHANGED <<storage, balance, call, donated>>

Next ==
    \/ Initialize
    \/ \E a \in Addr, n \in 1 .. MaxAmount : Fund(a, n)
    \/ \E a \in Addr : ApproveDelivery(a)
    \/ \E a \in Addr : SubmitDeliveryMilestone(a)
    \/ \E a \in Addr : Release(a)
    \/ \E a \in Addr, id \in 0 .. MilestoneCount : RecordMilestone(a, id)
    \/ \E a \in Addr : SettleEscrow(a)
    \/ \E a, b \in Addr : FreezeContributor(a, b)
    \/ \E a, b \in Addr : UnfreezeContributor(a, b)
    \/ \E a \in Addr : RefundAfterExpiry(a)
    \/ \E a \in Addr : RefundAllAfterExpiry(a)
    \/ \E a \in Addr : RefundAllVisit(a)
    \/ Transfer
    \/ Finish
    \/ Abort
    \/ \E a \in Addr, n \in 1 .. MaxAmount : DirectTransfer(a, n)
    \/ Tick

Spec == Init /\ [][Next]_vars

-----------------------------------------------------------------------------
(* Properties.                                                             *)

Idle == call.op = "none"

FlagsOK ==
    /\ initialized \in BOOLEAN
    /\ released \in BOOLEAN
    /\ operationInProgress \in BOOLEAN
    /\ deliveryApproved \in BOOLEAN

DataOK ==
    /\ totalFunded \in Int
    /\ investors \in [Addr -> Int]
    /\ refunded \in SUBSET Addr
    /\ milestoneData \in SUBSET Milestones
    /\ milestonesCompleted \in Nat
    /\ frozenContributors \in SUBSET Addr
    /\ balance \in [Holder -> Int]
    /\ now \in Nat
    /\ donated \in [Holder -> Nat]

CallOK ==
    call \in [op : {"none", "fund", "payout", "refund", "refund_all"},
              pay : Seq([from : Holder, to : Holder, amount : Int]),
              todo : SUBSET Addr, loc : Snapshot, saved : Snapshot]

\* Every variable has its type, the invocation in progress included; in
\* particular only milestone ids below the agreed count are ever recorded.
TypeOK == FlagsOK /\ DataOK /\ CallOK

\* Between invocations the contract's USDC balance is exactly what its
\* storage says it holds: TotalFunded until release or settle_escrow, and
\* nothing afterwards.  (USDC that never went through fund comes on top.)
Solvency ==
    Idle => balance[Escrow] = donated[Escrow]
                              + (IF released THEN 0 ELSE totalFunded)

\* Between invocations an investor's money is in the wallet or recorded as a
\* contribution: fund, the refunds and their rollbacks lose or add nothing.
InvestorsWhole ==
    Idle => \A a \in Addr \ {Farmer, Platform} :
                balance[a] + investors[a] + donated[a] = InitBalance[a]

\* What release or settle_escrow paid is the 98% / 2% split of TotalFunded,
\* and TotalFunded still says so afterwards.
PayoutExact ==
    Idle =>
        LET gain(a) == balance[a] + investors[a] + donated[a] - InitBalance[a]
        IN  /\ gain(Farmer) = IF released THEN FarmerAmount(totalFunded)
                                          ELSE 0
            /\ gain(Platform) =
                   IF released THEN totalFunded - FarmerAmount(totalFunded)
                               ELSE 0

\* An address with its Refunded flag set has no contribution left, so the
\* early return of refund_after_expiry never hides money that is owed.
RefundedOwnsNothing == \A a \in refunded : investors[a] = 0

\* Compliance: a frozen address is never credited by a transfer; only the
\* rollback of its own invocation can give it money back.
FrozenUnpaid ==
    [][\A a \in frozenContributors :
          balance'[a] > balance[a] => balance' = call.saved.balance]_vars

\* Once a payout has returned, TotalFunded, the contributions and the flags
\* never change again: no refund and no second payout follows it.
ReleaseFinal ==
    [][Idle /\ released =>
          UNCHANGED <<totalFunded, investors, refunded, released>>]_vars

\* A batch refund that returns Ok leaves contributions to frozen addresses
\* only: its loop skips nobody else.
BatchRefundComplete ==
    [][call.op = "refund_all" /\ Finish =>
          \A a \in Addr : investors'[a] > 0 => a \in frozenContributors]_vars
=============================================================================
