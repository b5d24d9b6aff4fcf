----------------------------- MODULE DealFunding ----------------------------
(***************************************************************************)
(* The funding of one published deal: investments are created, confirmed   *)
(* by the REST call or by the investment.fund job, withdrawn by investors, *)
(* and refunded when the trader cancels the deal or the hourly cron jobs   *)
(* close it.                                                               *)
(*                                                                         *)
(* PostgreSQL runs at READ COMMITTED.  A variable holds committed values;  *)
(* what an operation has read and not yet written is in a variable of its  *)
(* own, and the operation is split between the two.  Row locks appear as   *)
(* guards: while a confirmation's transaction is open nobody else writes   *)
(* its investment.                                                         *)
(***************************************************************************)
EXTENDS Leases, Integers, FiniteSets, FiniteSetsExt

CONSTANTS
    Investments,     \* the investments that may be made in the deal
    Copies,          \* fundEscrow calls (outbox events) for one investment
    Amount,          \* amountUsd of each
    TotalValue,      \* total_value of the deal
    MinimumTarget,   \* minimum_funding_target, or total_value
    Ops,             \* the operations in use
    SchemaChecks,    \* TRUE: the CHECK constraints of the migrations are in force
    MaxAttempts,     \* DEFAULT_QUEUE_MAX_RETRIES
    MaxCrashes,      \* bound on processes that die during an operation
    MaxFailures,     \* bound on calls to Stellar and the database that fail
    MaxExpiries      \* bound on leases that run out under a live job

ASSUME FundingAssumption ==
    /\ Keys = Investments /\ IsFiniteSet(Investments) /\ IsFiniteSet(Copies)
    /\ Amount \in [Investments -> Nat \ {0}]
    /\ MinimumTarget \in Nat \ {0} /\ TotalValue \in Nat \ {0}
    /\ Ops \subseteq {"confirm", "fund", "cool", "withdraw", "cancel", "close"}
    /\ SchemaChecks \in BOOLEAN
    /\ MaxAttempts \in Nat \ {0}
    /\ {MaxCrashes, MaxFailures, MaxExpiries} \subseteq Nat

VARIABLES
    dealStatus,     \* trade_deals.status
    totalInvested,  \* trade_deals.total_invested
    inv,            \* investments.status
    call,           \* progress of confirmInvestment, and the sum it has read
    withdrawal,     \* progress of the GraphQL cancelInvestment
    closing,        \* cancelDeal and closeUnderfundedDeal, and what they read
    swept,          \* ids read by refundPendingInvestmentsOnExpiredDeals
    job,            \* where each investment.fund message is, or its job's await
    attempts,       \* attempt, of the job's loop
    paid,           \* investments whose USDC Stellar has moved to the escrow
    tokens,         \* transfers of trade tokens to the investor
    overlapped,     \* two confirmations have had their transactions open at once
    crashes, failures, expiries

deal   == <<dealStatus, totalInvested>>
calls  == <<call, withdrawal>>
admin  == <<closing, swept>>
jobs   == <<job, attempts>>
chain  == <<paid, tokens>>
bounds == <<crashes, failures, expiries>>
vars   == <<lease, deal, inv, calls, admin, jobs, chain, overlapped, bounds>>

Jobs == Investments \X Copies
Closers == {"cancel", "close"}

Statuses == {"none", "pending", "confirmed", "failed", "cancelled", "refunded"}
HeldSteps == {"read", "submit", "transfer", "confirm", "done", "fail",
              "get again", "del"}
JobSteps == HeldSteps \cup {"get", "set", "ack", "nack"}

Sum(S) == MapThenSumSet(LAMBDA i : Amount[i], S)
Confirmed == {i \in Investments : inv[i] = "confirmed"}
Pending == {i \in Investments : inv[i] = "pending"}
Existing == {i \in Investments : inv[i] # "none"}

Dead == dealStatus \in {"canceled", "expired"}

\* The row of the investment is locked by an open transaction.
Locked(i) == call[i].at = "open"

Idle == [at |-> "idle", sum |-> 0]
NotClosing == [at |-> "idle", refunds |-> {}, known |-> {}, total |-> 0]

-----------------------------------------------------------------------------
Init ==
    /\ LeaseInit
    /\ dealStatus = "open" /\ totalInvested = 0
    /\ inv = [i \in Investments |-> "none"]
    /\ call = [i \in Investments |-> Idle]
    /\ withdrawal = [i \in Investments |-> "idle"]
    /\ closing = [o \in Closers |-> NotClosing]
    /\ swept = {}
    /\ job = [j \in Jobs |-> "unsent"]
    /\ attempts = [j \in Jobs |-> 0]
    /\ paid = {} /\ tokens = [i \in Investments |-> 0]
    /\ overlapped = FALSE
    /\ crashes = 0 /\ failures = 0 /\ expiries = 0

Fault ==
    /\ failures < MaxFailures
    /\ failures' = failures + 1
    /\ UNCHANGED <<crashes, expiries>>

(* InvestmentsService. *)

\* One transaction that holds the lock of the deal.  Only confirmed
\* investments count against the value of the deal.
CreateInvestment(i) ==
    /\ inv[i] = "none"
    /\ dealStatus = "open"
    /\ Sum(Confirmed) + Amount[i] <= TotalValue
    /\ inv' = [inv EXCEPT ![i] = "pending"]
    /\ UNCHANGED <<lease, deal, calls, admin, jobs, chain, overlapped, bounds>>

\* confirmInvestment reads the investment before its transaction begins.
ConfirmRead(i) ==
    /\ "confirm" \in Ops
    /\ call[i].at = "idle"
    /\ inv[i] = "pending"
    /\ call' = [call EXCEPT ![i].at = "checked"]
    /\ UNCHANGED <<lease, deal, inv, withdrawal, admin, jobs, chain, overlapped,
                   bounds>>

\* Mutants: pending investments count too; the transaction's own update does
\* not count.
SeenBy_Pending(i) == Confirmed \cup Pending \cup {i}
SeenBy_Others(i) == Confirmed

\* The transaction sees its own update and the committed rows of the others.
SeenBy(i) == Confirmed \cup {i}

\* The transaction updates the investment, whatever its status is now, and
\* sums what it sees as confirmed.
ConfirmOpen(i) ==
    /\ call[i].at = "checked"
    /\ call' = [call EXCEPT ![i] = [at |-> "open", sum |-> Sum(SeenBy(i))]]
    /\ overlapped' = (overlapped \/ \E n \in Investments : Locked(n))
    /\ UNCHANGED <<lease, deal, inv, withdrawal, admin, jobs, chain, bounds>>

\* Mutant: the update lacks its condition.
StatusAt_Unconditional(sum) == IF sum >= TotalValue THEN "funded" ELSE dealStatus

\* UPDATE ... SET status = 'funded' WHERE status = 'open'.
StatusAt(sum) ==
    IF sum >= TotalValue /\ dealStatus = "open" THEN "funded" ELSE dealStatus

\* The sum is written to the deal, which may become funded, and the
\* transaction commits.
ConfirmCommit(i) ==
    /\ call[i].at = "open"
    /\ inv' = [inv EXCEPT ![i] = "confirmed"]
    /\ totalInvested' = call[i].sum
    /\ dealStatus' = StatusAt(call[i].sum)
    /\ call' = [call EXCEPT ![i] = Idle]
    /\ UNCHANGED <<lease, withdrawal, admin, jobs, chain, overlapped, bounds>>

\* The request dies, or its transaction fails.
ConfirmRollback(i) ==
    /\ call[i].at # "idle"
    /\ Fault
    /\ call' = [call EXCEPT ![i] = Idle]
    /\ UNCHANGED <<lease, deal, inv, withdrawal, admin, jobs, chain, overlapped>>

\* investments.status was created with CHECK (status IN ('pending',
\* 'confirmed', 'failed')), trade_deals.status without 'canceled' and
\* 'expired', and no migration changes that: with SchemaChecks a write of
\* another status throws.

\* requestCoolingOffCancel: UPDATE ... WHERE status = 'pending'.
RequestCoolingOffCancel(i) ==
    /\ "cool" \in Ops
    /\ inv[i] = "pending" /\ ~Locked(i) /\ ~SchemaChecks
    /\ inv' = [inv EXCEPT ![i] = "cancelled"]
    /\ UNCHANGED <<lease, deal, calls, admin, jobs, chain, overlapped, bounds>>

\* The GraphQL mutation cancelInvestment reads and later saves the row.
WithdrawRead(i) ==
    /\ "withdraw" \in Ops
    /\ withdrawal[i] = "idle"
    /\ inv[i] \in {"pending", "confirmed"}
    /\ withdrawal' = [withdrawal EXCEPT ![i] = "read"]
    /\ UNCHANGED <<lease, deal, inv, call, admin, jobs, chain, overlapped, bounds>>

WithdrawSave(i) ==
    /\ withdrawal[i] = "read" /\ ~Locked(i)
    /\ inv' = IF SchemaChecks THEN inv ELSE [inv EXCEPT ![i] = "cancelled"]
    /\ withdrawal' = [withdrawal EXCEPT ![i] = "idle"]
    /\ UNCHANGED <<lease, deal, call, admin, jobs, chain, overlapped, bounds>>

\* fundEscrow with a signed transaction: the event goes through the outbox.
FundEscrow(j) ==
    /\ "fund" \in Ops
    /\ inv[j[1]] = "pending"
    /\ job[j] = "unsent"
    /\ job' = [job EXCEPT ![j] = "ready"]
    /\ UNCHANGED <<lease, deal, inv, calls, admin, attempts, chain, overlapped, bounds>>

-----------------------------------------------------------------------------
(* QueueProcessor.processInvestmentFund, job j = <<investment, copy>>. *)

Go(j, next) ==
    /\ job' = [job EXCEPT ![j] = next]
    /\ UNCHANGED attempts

HandleInvestmentFund(j) ==
    /\ job[j] = "ready"
    /\ job' = [job EXCEPT ![j] = "get"]
    /\ attempts' = [attempts EXCEPT ![j] = 0]
    /\ UNCHANGED <<lease, deal, inv, calls, admin, chain, overlapped, bounds>>

GetLease(j) ==
    /\ job[j] = "get"
    /\ \/ GetFree(j[1]) /\ Go(j, "set")
       \/ GetTaken(j[1]) /\ Go(j, "ack")
    /\ UNCHANGED <<deal, inv, calls, admin, chain, overlapped, bounds>>

SetLease(j) ==
    /\ job[j] = "set"
    /\ \/ SetNX(j[1]) /\ Go(j, "read")
       \/ GetTaken(j[1]) /\ Go(j, "ack")
    /\ UNCHANGED <<deal, inv, calls, admin, chain, overlapped, bounds>>

\* Mutant: the status is not checked.
ReadInvestment_Unchecked(j) ==
    /\ job[j] = "read"
    /\ Go(j, "submit")
    /\ UNCHANGED <<lease, deal, inv, calls, admin, chain, overlapped, bounds>>

\* An investment that is no longer pending is skipped; the lease is kept.
ReadInvestment(j) ==
    /\ job[j] = "read"
    /\ Go(j, IF inv[j[1]] = "pending" THEN "submit" ELSE "ack")
    /\ UNCHANGED <<lease, deal, inv, calls, admin, chain, overlapped, bounds>>

\* Mutant: the tokens are sent first.
SubmitTransaction_TokensOnly(j) ==
    /\ job[j] = "submit"
    /\ UNCHANGED paid
    /\ Go(j, "transfer")
    /\ UNCHANGED <<lease, deal, inv, calls, admin, tokens, overlapped, bounds>>

\* The investor's signed transaction takes effect once, however often it is
\* submitted.
SubmitTransaction(j) ==
    /\ job[j] = "submit"
    /\ paid' = paid \cup {j[1]}
    /\ Go(j, "transfer")
    /\ UNCHANGED <<lease, deal, inv, calls, admin, tokens, overlapped, bounds>>

\* Every call of transferTradeTokens is a transaction of its own.
TransferTradeTokens(j) ==
    /\ job[j] = "transfer"
    /\ tokens' = [tokens EXCEPT ![j[1]] = @ + 1]
    /\ Go(j, "confirm")
    /\ UNCHANGED <<lease, deal, inv, calls, admin, paid, overlapped, bounds>>

\* Only the investment is updated, not the deal.
ConfirmFunded(j) ==
    /\ job[j] = "confirm" /\ ~Locked(j[1])
    /\ inv' = [inv EXCEPT ![j[1]] = "confirmed"]
    /\ Go(j, "done")
    /\ UNCHANGED <<lease, deal, calls, admin, chain, overlapped, bounds>>

FinishFunded(j) ==
    /\ job[j] = "done"
    /\ MarkDone(j[1])
    /\ Go(j, "ack")
    /\ UNCHANGED <<deal, inv, calls, admin, chain, overlapped, bounds>>

\* The catch of the loop: from the beginning again, up to MaxAttempts.
NextAttempt(j) ==
    /\ attempts' = [attempts EXCEPT ![j] = @ + 1]
    /\ job' = [job EXCEPT ![j] = IF attempts[j] + 1 < MaxAttempts THEN "submit"
                                                                 ELSE "fail"]

\* A call in the loop throws; Stellar may have applied the transaction.
AttemptThrows(j) ==
    /\ \/ job[j] = "submit" /\ paid' \in {paid, paid \cup {j[1]}} /\ UNCHANGED tokens
       \/ job[j] = "transfer" /\ UNCHANGED paid
            /\ tokens' \in {tokens, [tokens EXCEPT ![j[1]] = @ + 1]}
       \/ job[j] = "confirm" /\ UNCHANGED chain
    /\ Fault
    /\ NextAttempt(j)
    /\ UNCHANGED <<lease, deal, inv, calls, admin, overlapped>>

\* Mutant: the status is not written.
FailInvestment_Kept(j) ==
    /\ job[j] = "fail" /\ ~Locked(j[1])
    /\ Go(j, "get again")
    /\ UNCHANGED <<lease, deal, inv, calls, admin, chain, overlapped, bounds>>

\* All attempts have failed.
FailInvestment(j) ==
    /\ job[j] = "fail" /\ ~Locked(j[1])
    /\ inv' = [inv EXCEPT ![j[1]] = "failed"]
    /\ Go(j, "get again")
    /\ UNCHANGED <<lease, deal, calls, admin, chain, overlapped, bounds>>

ReleaseLease(j) ==
    /\ \/ /\ job[j] = "get again"
          /\ \/ GetProcessing(j[1]) /\ Go(j, "del")
             \/ GetOther(j[1]) /\ Go(j, "nack")
       \/ job[j] = "del" /\ Del(j[1]) /\ Go(j, "nack")
    /\ UNCHANGED <<deal, inv, calls, admin, chain, overlapped, bounds>>

Settle(j) ==
    /\ \/ job[j] = "ack" /\ Go(j, "gone")
       \/ job[j] = "nack" /\ Go(j, "dlq")
    /\ UNCHANGED <<lease, deal, inv, calls, admin, chain, overlapped, bounds>>

\* The process dies and the broker delivers the message again.
CrashJob(j) ==
    /\ job[j] \in JobSteps
    /\ crashes < MaxCrashes
    /\ crashes' = crashes + 1
    /\ Go(j, "ready")
    /\ UNCHANGED <<lease, deal, inv, calls, admin, chain, overlapped, failures, expiries>>

\* A lease ends after its holder is gone, or under a job that outlives it.
ExpireLease(i) ==
    /\ Expire(i)
    /\ IF \E c \in Copies : job[<<i, c>>] \in JobSteps
         THEN expiries < MaxExpiries /\ expiries' = expiries + 1
         ELSE UNCHANGED expiries
    /\ UNCHANGED <<deal, inv, calls, admin, jobs, chain, overlapped, crashes, failures>>

-----------------------------------------------------------------------------
(* TradeDealsService.cancelDeal and closeUnderfundedDeal, and the cron job  *)
(* that refunds the pending investments of expired deals.                   *)

MayClose(o) ==
    /\ dealStatus = "open"
    /\ o = "close" => totalInvested < MinimumTarget

\* The deal is read with its investments; nothing is locked.
CloseRead(o) ==
    /\ o \in Ops /\ closing[o].at = "idle"
    /\ MayClose(o)
    /\ closing' = [closing EXCEPT ![o] =
          [at |-> "clawback", refunds |-> Confirmed, known |-> Existing,
           total |-> totalInvested]]
    /\ UNCHANGED <<lease, deal, inv, calls, swept, jobs, chain, overlapped, bounds>>

\* The trade tokens of the investments read are clawed back.
Clawback(o) ==
    /\ closing[o].at = "clawback"
    /\ closing' = [closing EXCEPT ![o].at = "refund"]
    /\ UNCHANGED <<lease, deal, inv, calls, swept, jobs, chain, overlapped, bounds>>

RefundRead(o) ==
    /\ \A i \in closing[o].refunds : ~Locked(i)
    /\ inv' = [i \in Investments |->
                 IF i \in closing[o].refunds THEN "refunded" ELSE inv[i]]

\* The database refuses a status, or save() finds an investment that the
\* entity's list does not have, unlinks it, and trade_deal_id is NOT NULL.
Refused(o) ==
    \/ SchemaChecks /\ (o = "cancel" \/ closing[o].at = "save" \/ closing[o].refunds # {})
    \/ closing[o].known # Existing /\ (o = "cancel" \/ closing[o].at = "save")

CloseThrows(o) ==
    /\ closing[o].at \in {"refund", "save"}
    /\ Refused(o)
    /\ closing' = [closing EXCEPT ![o] = NotClosing]
    /\ UNCHANGED <<lease, deal, inv, calls, swept, jobs, chain, overlapped, bounds>>

\* save() of the entity read at the beginning writes back every column that
\* differs from the row: the new status, and the old total_invested unless
\* that changes between save's own SELECT and its UPDATE.
SaveDeal(o, status) ==
    /\ dealStatus' = status
    /\ totalInvested' \in {closing[o].total, totalInvested}
    /\ closing' = [closing EXCEPT ![o] = NotClosing]

\* cancelDeal refunds and saves in one transaction.
CommitCancel ==
    /\ closing["cancel"].at = "refund" /\ ~Refused("cancel")
    /\ RefundRead("cancel")
    /\ SaveDeal("cancel", "canceled")
    /\ UNCHANGED <<lease, calls, swept, jobs, chain, overlapped, bounds>>

\* closeUnderfundedDeal does so in two statements.
RefundClosed ==
    /\ closing["close"].at = "refund" /\ ~Refused("close")
    /\ RefundRead("close")
    /\ closing' = [closing EXCEPT !["close"].at = "save"]
    /\ UNCHANGED <<lease, deal, calls, swept, jobs, chain, overlapped, bounds>>

SaveClosed ==
    /\ closing["close"].at = "save" /\ ~Refused("close")
    /\ SaveDeal("close", "expired")
    /\ UNCHANGED <<lease, inv, calls, swept, jobs, chain, overlapped, bounds>>

\* A call throws or the process dies: what has been written stays.
AbandonClosing(o) ==
    /\ closing[o].at # "idle"
    /\ Fault
    /\ closing' = [closing EXCEPT ![o] = NotClosing]
    /\ UNCHANGED <<lease, deal, inv, calls, swept, jobs, chain, overlapped>>

\* Mutant: the investments of canceled deals are swept.
SweepRead_Canceled ==
    /\ dealStatus = "canceled"
    /\ swept = {} /\ Pending # {}
    /\ swept' = Pending
    /\ UNCHANGED <<lease, deal, inv, calls, closing, jobs, chain, overlapped, bounds>>

\* refundPendingInvestmentsOnExpiredDeals: SELECT, then UPDATE by id.
SweepRead ==
    /\ dealStatus = "expired"
    /\ swept = {} /\ Pending # {}
    /\ swept' = Pending
    /\ UNCHANGED <<lease, deal, inv, calls, closing, jobs, chain, overlapped, bounds>>

SweepRefund ==
    /\ swept # {}
    /\ \A i \in swept : ~Locked(i)
    /\ inv' = [i \in Investments |-> IF i \in swept THEN "refunded" ELSE inv[i]]
    /\ swept' = {}
    /\ UNCHANGED <<lease, deal, calls, closing, jobs, chain, overlapped, bounds>>

-----------------------------------------------------------------------------
Job(j) ==
    \/ GetLease(j) \/ SetLease(j) \/ ReadInvestment(j) \/ SubmitTransaction(j)
    \/ TransferTradeTokens(j) \/ ConfirmFunded(j) \/ FinishFunded(j)
    \/ AttemptThrows(j) \/ FailInvestment(j) \/ ReleaseLease(j) \/ Settle(j)

Closing(o) ==
    \/ Clawback(o) \/ CloseThrows(o) \/ AbandonClosing(o)
    \/ o = "cancel" /\ CommitCancel
    \/ o = "close" /\ (RefundClosed \/ SaveClosed)

Next ==
    \/ \E i \in Investments :
          \/ CreateInvestment(i)
          \/ ConfirmRead(i) \/ ConfirmOpen(i) \/ ConfirmCommit(i) \/ ConfirmRollback(i)
          \/ RequestCoolingOffCancel(i)
          \/ WithdrawRead(i) \/ WithdrawSave(i)
          \/ ExpireLease(i)
    \/ \E j \in Jobs :
          FundEscrow(j) \/ HandleInvestmentFund(j) \/ Job(j) \/ CrashJob(j)
    \/ \E o \in Closers : CloseRead(o) \/ Closing(o)
    \/ SweepRead \/ SweepRefund

Spec == Init /\ [][Next]_vars

\* Requests that have begun and jobs that were delivered run on, queues
\* deliver, and the cron jobs come back every hour.
Fairness ==
    /\ \A i \in Investments : WF_vars(ConfirmOpen(i) \/ ConfirmCommit(i))
    /\ \A j \in Jobs : WF_vars(HandleInvestmentFund(j)) /\ WF_vars(Job(j))
    /\ WF_vars(CloseRead("close")) /\ \A o \in Closers : WF_vars(Closing(o))
    /\ WF_vars(SweepRead) /\ WF_vars(SweepRefund)

FairSpec == Spec /\ Fairness

-----------------------------------------------------------------------------
(* Properties. *)

\* Every variable keeps its type: statuses of investments and deal, progress
\* of the calls of InvestmentsService, and the steps of the jobs.
TypeOK ==
    /\ LeaseType
    /\ dealStatus \in {"open", "funded", "canceled", "expired"}
    /\ totalInvested \in 0..Sum(Investments)
    /\ inv \in [Investments -> Statuses]
    /\ call \in [Investments -> [at : {"idle", "checked", "open"},
                                 sum : 0..Sum(Investments)]]
    /\ withdrawal \in [Investments -> {"idle", "read"}]
    /\ closing \in [Closers -> [at : {"idle", "clawback", "refund", "save"},
                                refunds : SUBSET Investments,
                                known : SUBSET Investments,
                                total : 0..Sum(Investments)]]
    /\ swept \subseteq Investments
    /\ job \in [Jobs -> JobSteps \cup {"unsent", "ready", "gone", "dlq"}]
    /\ attempts \in [Jobs -> 0..MaxAttempts]
    /\ paid \subseteq Investments
    /\ tokens \in [Investments -> Nat]
    /\ overlapped \in BOOLEAN
    /\ crashes \in 0..MaxCrashes /\ failures \in 0..MaxFailures
    /\ expiries \in 0..MaxExpiries

\* However confirmations of confirmInvestment interleave and roll back, the
\* deal never claims more money than its confirmed investments add up to.
TotalNeverOverstated == totalInvested <= Sum(Confirmed)

\* As long as no two transactions of confirmInvestment were open at the same
\* time, total_invested is exact, and a deal that is paid in full is not left
\* open.
ExactUnlessOverlapping ==
    ~overlapped =>
       /\ totalInvested = Sum(Confirmed)
       /\ Sum(Confirmed) >= TotalValue => dealStatus # "open"

\* The job of investment.fund confirms only what Stellar has paid into the
\* escrow, and for which the investor holds trade tokens, however often the
\* job is repeated, duplicated or killed.
ConfirmedIsBacked ==
    \A i \in Investments : inv[i] = "confirmed" => i \in paid /\ tokens[i] > 0

\* The lease and the check of the status keep duplicates of investment.fund
\* from sending trade tokens again: every transfer beyond the first one goes
\* with a failed call, a crash or a lease that expired under its job.
ExtraTokensNeedFault ==
    \A i \in Investments : tokens[i] <= 1 + failures + crashes + expiries

\* A canceled or expired deal is never revived, although confirmations of its
\* investments may still commit: confirmInvestment only moves an open deal.
DeadStaysDead ==
    [][Dead => Dead']_vars

\* Unless a process has died, the last message of an investment's funding does
\* not leave the queue before the investment is decided: a duplicate is only
\* dropped while another job still has the work, and a job that gives up says
\* so.
FundingDecided ==
    crashes = 0 =>
       \A i \in Investments :
          LET sent == {c \in Copies : job[<<i, c>>] # "unsent"} IN
          sent # {} /\ (\A c \in sent : job[<<i, c>>] \in {"gone", "dlq"})
             => inv[i] # "pending"

\* The hourly cron job closes a deal that stays below its minimum target.  (Not
\* while the CHECK constraints are in force, which refuse 'expired'.)
OverdueCloses ==
    "close" \in Ops => <>(dealStatus # "open" \/ totalInvested >= MinimumTarget)

\* The pending investments of an expired deal are refunded, unless a cancelDeal
\* that read the deal before overwrites the status: the sweep looks for expired
\* deals only, so what the canceled one still has pending stays pending.
ExpiredDrains ==
    dealStatus = "expired" ~> (Pending = {} \/ dealStatus = "canceled")

\* README: investments never exceed total_value.
NeverOverfunded == Sum(Confirmed) <= TotalValue

\* requestCoolingOffCancel: an investment it has cancelled is not funded.
CancelHolds ==
    [][\A i \in Investments : inv[i] = "cancelled" => inv'[i] = "cancelled"]_vars
=============================================================================
