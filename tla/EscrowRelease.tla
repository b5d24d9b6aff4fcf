--------------------------- MODULE EscrowRelease ----------------------------
(***************************************************************************)
(* The release of one deal's escrow: ShipmentsService.recordMilestone      *)
(* emits deal.delivered, replicas of EscrowConsumer take it from the       *)
(* escrow queue, and EscrowService.processDealDelivered pays on Stellar    *)
(* and then records the payout in PostgreSQL.  Redis leases, redelivery by *)
(* the broker and the dead-letter queue sit in between.                    *)
(*                                                                         *)
(* A message is in the hands of at most one job at a time, so at[m] is     *)
(* both where message m is and, while it is being processed, the next      *)
(* await of its job.  Jobs run in any number of replicas (a replica runs   *)
(* up to its prefetch count of them); every await is a step of its own and *)
(* the process of a job can die between any two.                           *)
(***************************************************************************)
EXTENDS Leases, Integers, FiniteSets

CONSTANTS
    Msgs,            \* publications of deal.delivered for the deal
    Requests,        \* those emitted by recordMilestone('importer') calls;
                     \* if empty, the deal is delivered to begin with
    Deals,           \* what the validation of the deal may find
    MaxAttempts,     \* ESCROW_MAX_DELIVERY_ATTEMPTS
    EscrowFunds,     \* full payouts the escrow account's balance covers
    MaxCrashes,      \* bound on processes that die during a job
    MaxFailures,     \* bound on failing calls to Stellar, database and broker
    MaxExpiries,     \* bound, for each key, on expiries under a live job
    MaxReplays       \* bound on replays from the dead-letter queue

DealLease == "deal.delivered"
PayLease  == "payment.distribution"

ASSUME ReleaseAssumption ==
    /\ Keys = {DealLease, PayLease}
    /\ IsFiniteSet(Msgs) /\ Requests \subseteq Msgs
    /\ Deals \subseteq {"payable", "invalid", "uninvested"}
    /\ MaxAttempts \in Nat \ {0}
    /\ {EscrowFunds, MaxCrashes, MaxFailures, MaxExpiries, MaxReplays}
          \subseteq Nat

VARIABLES
    deal,        \* what the wallets and investments of the deal allow
    status,      \* trade_deals.status as committed
    rows,        \* status of the deal's payment_distributions rows
    request,     \* progress of each recordMilestone call
    milestones,  \* committed 'importer' rows of shipment_milestones
    at,          \* where each message is, or the next await of its job
    deaths,      \* its x-death count
    paid,        \* payouts made on Stellar
    alerted,     \* the operators were told of a dead-lettered message
    forgotten,   \* history: how a delivery got out of everybody's hands
    crashes, failures, expiries, replays

db     == <<deal, status, rows, request, milestones>>
broker == <<at, deaths>>
bounds == <<crashes, failures, expiries, replays, forgotten>>
vars   == <<lease, db, broker, paid, alerted, bounds>>

\* Awaits of a job that holds the payment.distribution lease, and the others
\* during which it holds the deal.delivered lease.
PaySteps  == {"pay", "commit", "fail", "done pay", "get pay again", "del pay"}
DealSteps == PaySteps \cup {"read", "get pay", "set pay", "done deal",
                            "get deal again", "del deal"}
JobSteps  == DealSteps \cup {"get deal", "set deal", "ack", "nack"}

InFlight(m) == at[m] \in JobSteps
HolderSteps(k) == IF k = PayLease THEN PaySteps ELSE DealSteps

-----------------------------------------------------------------------------
Init ==
    /\ LeaseInit
    /\ deal \in Deals
    /\ status = IF Requests = {} THEN "delivered" ELSE "funded"
    /\ rows = "none"
    /\ request = [m \in Requests |-> "new"]
    /\ milestones = IF Requests = {} THEN 1 ELSE 0
    /\ IF Requests = {}
         THEN \E first \in Msgs :
                at = [m \in Msgs |-> IF m = first THEN "ready" ELSE "unsent"]
         ELSE at = [m \in Msgs |-> "unsent"]
    /\ deaths = [m \in Msgs |-> 0]
    /\ paid = 0
    /\ alerted = FALSE /\ forgotten = {}
    /\ crashes = 0 /\ failures = 0 /\ expiries = [k \in Keys |-> 0] /\ replays = 0

Fault ==
    /\ failures < MaxFailures
    /\ failures' = failures + 1
    /\ UNCHANGED <<crashes, expiries, replays, forgotten>>

\* A step after which nobody may look at the delivery again.
Forget(causes) ==
    /\ forgotten' = forgotten \cup causes
    /\ UNCHANGED <<crashes, failures, expiries, replays>>

(* ShipmentsService.recordMilestone('importer') and the operator's retry. *)

\* The transaction has begun and the reads have passed: the deal is funded
\* and three milestones are recorded.  recordMemo on Stellar comes next.
CheckMilestone(m) ==
    /\ request[m] = "new"
    /\ status = "funded"
    /\ milestones = 0
    /\ request' = [request EXCEPT ![m] = "checked"]
    /\ UNCHANGED <<lease, deal, status, rows, milestones, broker, paid, alerted,
                   bounds>>

\* The row of the deal is updated, which waits for the row lock of any other
\* open update, and the message is emitted inside the open transaction.
\* emit does not wait for the broker: if it is down the message is lost.
UpdateMilestone(m, sent) ==
    /\ request[m] = "checked"
    /\ \A n \in Requests : request[n] # "open"
    /\ request' = [request EXCEPT ![m] = "open"]
    /\ IF sent
         THEN at' = [at EXCEPT ![m] = "ready"] /\ UNCHANGED bounds
         ELSE /\ UNCHANGED <<at, crashes, expiries, replays>>
              /\ failures < MaxFailures /\ failures' = failures + 1
              /\ forgotten' = forgotten \cup {"unsent"}
    /\ UNCHANGED <<lease, deal, status, rows, milestones, deaths, paid, alerted>>

CommitMilestone(m) ==
    /\ request[m] = "open"
    /\ request' = [request EXCEPT ![m] = "over"]
    /\ status' = "delivered"
    /\ milestones' = milestones + 1
    /\ UNCHANGED <<lease, deal, rows, broker, paid, alerted, bounds>>

RollbackMilestone(m) ==
    /\ request[m] = "open"
    /\ Fault
    /\ request' = [request EXCEPT ![m] = "over"]
    /\ UNCHANGED <<lease, deal, status, rows, milestones, broker, paid, alerted>>

\* FailedPaymentsService.retryFailedPayment: an administrator publishes the
\* message again, whatever the state of the deal.
RetryFailedPayment(m) ==
    /\ m \notin Requests
    /\ at[m] = "unsent"
    /\ at' = [at EXCEPT ![m] = "ready"]
    /\ UNCHANGED <<lease, db, deaths, paid, alerted, bounds>>

-----------------------------------------------------------------------------
(* EscrowConsumer up to the call of EscrowService. *)

Go(m, next) ==
    /\ at' = [at EXCEPT ![m] = next]
    /\ UNCHANGED deaths

\* x-death count after one more death; its value beyond MaxAttempts is not
\* told apart.
OneMore(n) == IF n < MaxAttempts THEN n + 1 ELSE n

\* nack with requeue.  RabbitMQ does not count it in x-death; the consumer's
\* comments expect that, or a policy of the queue, to make the attempt grow.
Requeue(m) ==
    /\ at' = [at EXCEPT ![m] = "ready"]
    /\ deaths' \in {deaths, [deaths EXCEPT ![m] = OneMore(@)]}

DeadLetter(m) ==
    /\ at' = [at EXCEPT ![m] = "dlq"]
    /\ deaths' = [deaths EXCEPT ![m] = OneMore(@)]

\* parsePayload reads JSON with a tradeDealId and dead-letters anything else as
\* malformed.  Every body that QueueService.emit sends is encrypted and so is
\* malformed; the rest of the consumer is written for the other case.
ParsePayload(m) == DeadLetter(m) \/ Go(m, "get deal")

HandleDealDelivered(m) ==
    /\ at[m] = "ready"
    /\ ParsePayload(m)
    /\ UNCHANGED <<lease, db, paid, alerted, bounds>>

\* A replica that is shutting down returns what it is handed.
HandleWhileStopping(m) ==
    /\ at[m] = "ready"
    /\ Requeue(m)
    /\ UNCHANGED <<lease, db, paid, alerted, bounds>>

\* The key is taken: by a live job, by one that died, or for good.
Refused(k) ==
    /\ GetTaken(k)
    /\ Forget(IF lease[k] = "processing" /\ \A n \in Msgs : at[n] \notin HolderSteps(k)
                THEN {"orphan"} ELSE {})

\* acquireLease of deal.delivered: the message is dropped unless it is won.
GetDealLease(m) ==
    /\ at[m] = "get deal"
    /\ \/ GetFree(DealLease) /\ Go(m, "set deal") /\ UNCHANGED bounds
       \/ Refused(DealLease) /\ Go(m, "ack")
    /\ UNCHANGED <<db, paid, alerted>>

SetDealLease(m) ==
    /\ at[m] = "set deal"
    /\ \/ SetNX(DealLease) /\ Go(m, "read") /\ UNCHANGED bounds
       \/ Refused(DealLease) /\ Go(m, "ack")
    /\ UNCHANGED <<db, paid, alerted>>

-----------------------------------------------------------------------------
(* EscrowService.processDealDelivered. *)

\* Phase 1: the reads and the validation.  A skip returns normally.
ReadDeal(m) ==
    /\ at[m] = "read"
    /\ Go(m, IF status # "delivered" \/ deal = "uninvested" THEN "done deal"
             ELSE IF deal = "invalid" THEN "get deal again"
             ELSE "get pay")
    /\ Forget(IF status = "funded" THEN {"early"} ELSE {})
    /\ UNCHANGED <<lease, db, paid, alerted>>

\* Mutant: both leases use the same key.
GetPayLease_SameKey(m) ==
    /\ at[m] = "get pay"
    /\ \/ GetFree(DealLease) /\ Go(m, "set pay") /\ UNCHANGED bounds
       \/ Refused(DealLease) /\ Go(m, "done deal")
    /\ UNCHANGED <<db, paid, alerted>>

GetPayLease(m) ==
    /\ at[m] = "get pay"
    /\ \/ GetFree(PayLease) /\ Go(m, "set pay") /\ UNCHANGED bounds
       \/ Refused(PayLease) /\ Go(m, "done deal")
    /\ UNCHANGED <<db, paid, alerted>>

\* Mutant: the database is written before Stellar is called.
SetPayLease_CommitFirst(m) ==
    /\ at[m] = "set pay"
    /\ \/ SetNX(PayLease) /\ Go(m, "commit") /\ UNCHANGED bounds
       \/ Refused(PayLease) /\ Go(m, "done deal")
    /\ UNCHANGED <<db, paid, alerted>>

SetPayLease(m) ==
    /\ at[m] = "set pay"
    /\ \/ SetNX(PayLease) /\ Go(m, "pay") /\ UNCHANGED bounds
       \/ Refused(PayLease) /\ Go(m, "done deal")
    /\ UNCHANGED <<db, paid, alerted>>

\* Phase 2: Stellar pays, out of what the escrow account still holds.
ReleaseEscrow(m) ==
    /\ at[m] = "pay"
    /\ paid < EscrowFunds
    /\ paid' = paid + 1
    /\ Go(m, "commit")
    /\ UNCHANGED <<lease, db, alerted, bounds>>

\* The account is empty and the network refuses the payments.
ReleaseRefused(m) ==
    /\ at[m] = "pay"
    /\ paid >= EscrowFunds
    /\ Go(m, "fail")
    /\ UNCHANGED <<lease, db, paid, alerted, bounds>>

\* The call throws: nothing was paid, or the answer was lost after the
\* payment had been applied.
ReleaseThrows(m) ==
    /\ at[m] = "pay"
    /\ paid' \in {paid} \cup {n \in {paid + 1} : paid < EscrowFunds}
    /\ Fault
    /\ Go(m, "fail")
    /\ UNCHANGED <<lease, db, alerted>>

\* Mutant: the rows are written and the deal is not completed.
CommitPayout_NoStatus(m) ==
    /\ at[m] = "commit"
    /\ rows' = "confirmed"
    /\ Go(m, "done pay")
    /\ UNCHANGED <<lease, deal, status, request, milestones, paid, alerted, bounds>>

\* Phase 3: one transaction writes all rows and completes the deal.
CommitPayout(m) ==
    /\ at[m] = "commit"
    /\ status' = "completed"
    /\ rows' = "confirmed"
    /\ Go(m, "done pay")
    /\ UNCHANGED <<lease, deal, request, milestones, paid, alerted, bounds>>

\* Mutant: the error of the transaction is swallowed.
RollbackPayout_Swallowed(m) ==
    /\ at[m] = "commit"
    /\ Fault
    /\ Go(m, "done pay")
    /\ UNCHANGED <<lease, db, paid, alerted>>

RollbackPayout(m) ==
    /\ at[m] = "commit"
    /\ Fault
    /\ Go(m, "fail")
    /\ UNCHANGED <<lease, db, paid, alerted>>

MarkPayDone(m) ==
    /\ at[m] = "done pay"
    /\ MarkDone(PayLease)
    /\ Go(m, "done deal")
    /\ UNCHANGED <<db, paid, alerted, bounds>>

\* handleEscrowFailure: all rows of the deal become failed; an error of the
\* update is swallowed.  (No handler is registered for its admin.alert event.)
HandleEscrowFailure(m) ==
    /\ at[m] = "fail"
    /\ \/ rows' = (IF rows = "none" THEN "none" ELSE "failed") /\ UNCHANGED bounds
       \/ UNCHANGED rows /\ Fault
    /\ Go(m, "get pay again")
    /\ UNCHANGED <<lease, deal, status, request, milestones, paid, alerted>>

\* releaseLease of payment.distribution in the outer catch.
ReleasePayLease(m) ==
    /\ \/ /\ at[m] = "get pay again"
          /\ \/ GetProcessing(PayLease) /\ Go(m, "del pay")
             \/ GetOther(PayLease) /\ Go(m, "get deal again")
       \/ at[m] = "del pay" /\ Del(PayLease) /\ Go(m, "get deal again")
    /\ UNCHANGED <<db, paid, alerted, bounds>>

-----------------------------------------------------------------------------
(* EscrowConsumer after the call. *)

MarkDealDone(m) ==
    /\ at[m] = "done deal"
    /\ MarkDone(DealLease)
    /\ Go(m, "ack")
    /\ UNCHANGED <<db, paid, alerted, bounds>>

Ack(m) ==
    /\ at[m] = "ack"
    /\ Go(m, "gone")
    /\ UNCHANGED <<lease, db, paid, alerted, bounds>>

ReleaseDealLease(m) ==
    /\ \/ /\ at[m] = "get deal again"
          /\ \/ GetProcessing(DealLease) /\ Go(m, "del deal")
             \/ GetOther(DealLease) /\ Go(m, "nack")
       \/ at[m] = "del deal" /\ Del(DealLease) /\ Go(m, "nack")
    /\ UNCHANGED <<db, paid, alerted, bounds>>

\* getDeliveryAttempt is the x-death count plus one.
Exhausted(m) == deaths[m] + 1 >= MaxAttempts

\* Mutant: an exhausted message is acked.
Nack_Drops(m) ==
    /\ at[m] = "nack"
    /\ IF Exhausted(m) THEN Go(m, "gone") ELSE Requeue(m)
    /\ UNCHANGED <<lease, db, paid, alerted, bounds>>

Nack(m) ==
    /\ at[m] = "nack"
    /\ IF Exhausted(m) THEN DeadLetter(m) ELSE Requeue(m)
    /\ UNCHANGED <<lease, db, paid, alerted, bounds>>

-----------------------------------------------------------------------------
(* Faults and operators. *)

\* The process dies: the broker redelivers, the leases stay.
Crash(m) ==
    /\ InFlight(m)
    /\ crashes < MaxCrashes
    /\ crashes' = crashes + 1
    /\ Go(m, "ready")
    /\ UNCHANGED <<lease, db, paid, alerted, failures, expiries, replays, forgotten>>

\* The lease of a dead job runs out after 900 s, and a done marker after a day
\* without jobs.
ExpireUnused(k) ==
    /\ IF lease[k] = "done" THEN \A m \in Msgs : ~InFlight(m)
                            ELSE \A m \in Msgs : at[m] \notin HolderSteps(k)
    /\ Expire(k)
    /\ UNCHANGED <<db, broker, paid, alerted, bounds>>

\* A job outlives a key.
ExpireInUse(k) ==
    /\ \E m \in Msgs : InFlight(m)
    /\ expiries[k] < MaxExpiries
    /\ expiries' = [expiries EXCEPT ![k] = @ + 1]
    /\ Expire(k)
    /\ UNCHANGED <<db, broker, paid, alerted, crashes, failures, replays, forgotten>>

\* PayoutDeadLetterConsumer tells the operators and drops the message.
HandleDeadLetter(m) ==
    /\ at[m] = "dlq"
    /\ alerted' = TRUE
    /\ Go(m, "gone")
    /\ UNCHANGED <<lease, db, paid, bounds>>

\* EscrowDlqService.replayMessage keeps the headers, x-death included.
ReplayMessage(m) ==
    /\ at[m] = "dlq"
    /\ replays < MaxReplays
    /\ replays' = replays + 1
    /\ Go(m, "ready")
    /\ UNCHANGED <<lease, db, paid, alerted, crashes, failures, expiries, forgotten>>

-----------------------------------------------------------------------------
Job(m) ==
    \/ GetDealLease(m) \/ SetDealLease(m) \/ ReadDeal(m)
    \/ GetPayLease(m) \/ SetPayLease(m)
    \/ ReleaseEscrow(m) \/ ReleaseRefused(m) \/ ReleaseThrows(m)
    \/ CommitPayout(m) \/ RollbackPayout(m) \/ HandleEscrowFailure(m)
    \/ MarkPayDone(m) \/ ReleasePayLease(m)
    \/ MarkDealDone(m) \/ Ack(m) \/ ReleaseDealLease(m) \/ Nack(m)

Next ==
    \/ \E m \in Requests :
          \/ CheckMilestone(m) \/ CommitMilestone(m) \/ RollbackMilestone(m)
          \/ \E sent \in BOOLEAN : UpdateMilestone(m, sent)
    \/ \E m \in Msgs :
          \/ RetryFailedPayment(m) \/ HandleDealDelivered(m)
          \/ HandleWhileStopping(m) \/ Job(m) \/ Crash(m)
          \/ HandleDeadLetter(m) \/ ReplayMessage(m)
    \/ \E k \in Keys : ExpireUnused(k) \/ ExpireInUse(k)

Spec == Init /\ [][Next]_vars

\* Awaited calls return, a queue with a consumer is drained, and a
\* transaction that has begun ends.
Fairness ==
    /\ \A m \in Msgs : /\ WF_vars(Job(m))
                       /\ WF_vars(HandleDealDelivered(m))
                       /\ WF_vars(HandleDeadLetter(m))
    /\ \A m \in Requests : /\ WF_vars(\E sent \in BOOLEAN : UpdateMilestone(m, sent))
                           /\ WF_vars(CommitMilestone(m) \/ RollbackMilestone(m))

FairSpec == Spec /\ Fairness

-----------------------------------------------------------------------------
(* Every variable has its type. *)
TypeOK ==
    /\ LeaseType
    /\ deal \in {"payable", "invalid", "uninvested"}
    /\ status \in {"funded", "delivered", "completed"}
    /\ rows \in {"none", "confirmed", "failed"}
    /\ request \in [Requests -> {"new", "checked", "open", "over"}]
    /\ milestones \in Nat
    /\ at \in [Msgs -> JobSteps \cup {"unsent", "ready", "dlq", "gone"}]
    /\ deaths \in [Msgs -> 0..MaxAttempts]
    /\ paid \in 0..EscrowFunds
    /\ alerted \in BOOLEAN /\ forgotten \subseteq {"unsent", "early", "orphan"}
    /\ crashes \in 0..MaxCrashes /\ failures \in 0..MaxFailures
    /\ expiries \in [Keys -> 0..MaxExpiries] /\ replays \in 0..MaxReplays

(* As long as payment.distribution does not run out under a live job, at    *)
(* most one job at a time is between winning it and giving it up, and the   *)
(* key says so: GET, SET NX and DEL as separate commands, crashes,          *)
(* redeliveries and an expired deal.delivered lease never let a second job  *)
(* into releaseEscrow.                                                      *)
ExclusivePayout ==
    expiries[PayLease] = 0 =>
        \A m \in Msgs : at[m] \in PaySteps =>
            /\ lease[PayLease] = "processing"
            /\ \A n \in Msgs : at[n] \in PaySteps => n = m

(* The done marker of payment.distribution, which stops every later payout, *)
(* is only ever set for a deal whose payout rows have been committed and    *)
(* whose escrow was paid on Stellar.                                        *)
DoneMeansCommitted ==
    lease[PayLease] = "done" => paid >= 1 /\ rows # "none"

(* A completed deal has been paid, and as long as neither lease runs out    *)
(* under a live job its payout rows stay confirmed: the failure handler of  *)
(* another job, which marks every row of the deal as failed, never runs     *)
(* after the commit.  (With payment.distribution alone intact it can: a job *)
(* that read the deal before the commit wins the lease of a crashed one.)   *)
CompletedMeansPaid ==
    status = "completed" =>
        paid >= 1 /\ ((\A k \in Keys : expiries[k] = 0) => rows = "confirmed")

(* Every payout beyond the first is explained by a fault that happened:     *)
(* duplicate messages, replays and requeues alone never pay a deal twice.   *)
ExtraPayoutNeedsFault == paid <= 1 + failures + crashes + expiries[PayLease]

(* A delivered deal that nobody will look at any more: no message, no       *)
(* request under way, and the operators have not been told.                 *)
Stranded ==
    /\ status = "delivered"
    /\ ~alerted
    /\ \A m \in Msgs : at[m] \in {"unsent", "gone"}
    /\ \A m \in Requests : request[m] \in {"new", "over"}

(* ADR-002: database state change and message publication are strictly      *)
(* atomic, and failed messages are captured rather than lost silently.      *)
NoSilentLoss == ~Stranded

(* While no lease runs out under a live job, a delivery with investments is *)
(* forgotten in three ways only: its message was never published, a         *)
(* consumer read the deal before the milestone committed, or a redelivery   *)
(* met the lease of a dead job.  Failing calls, rollbacks after the         *)
(* payment, retries, duplicates, dead letters and replays forget none.      *)
LossNeedsCause ==
    Stranded /\ deal # "uninvested" /\ (\A k \in Keys : expiries[k] = 0)
        => forgotten # {}

(* "no deal or milestone can ever be released twice" (docs/runbooks/escrow.md) *)
PaidOnce == paid <= 1

(* A delivered deal that can be paid is completed in the end, or the        *)
(* operators are told of its message, it was forgotten in one of these      *)
(* ways, a lease ran out under a live job, or the escrow account was        *)
(* emptied: nothing else keeps the money in the escrow.                     *)
DeliveredIsReleased ==
    status = "delivered" /\ deal = "payable" ~>
        \/ status = "completed" \/ alerted \/ forgotten # {}
        \/ (\E k \in Keys : expiries[k] > 0) \/ paid = EscrowFunds

(* A delivered deal is completed or reported: retries end.                  *)
DeliveredIsHandled == status = "delivered" ~> status = "completed" \/ alerted
=============================================================================
