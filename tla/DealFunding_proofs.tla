------------------------ MODULE DealFunding_proofs --------------------------
(***************************************************************************)
(* Theorems about DealFunding for any number of investments and copies of  *)
(* their messages, any amounts, and any number of faults.                  *)
(***************************************************************************)
EXTENDS DealFunding, SumLemmas

(* A deal that is canceled or expired stays so. *)

\* The only steps that write the status are a confirmation's commit, whose
\* update has the condition status = 'open', and the saves of the closers.
LEMMA DeadStep == [Next]_vars => (Dead => Dead')
<1> SUFFICES ASSUME [Next]_vars, Dead PROVE Dead'
    OBVIOUS
<1>1. CASE UNCHANGED dealStatus
    BY <1>1 DEF Dead
<1>2. ASSUME NEW i \in Investments, ConfirmCommit(i) PROVE Dead'
    BY <1>2 DEF ConfirmCommit, StatusAt, Dead
<1>3. CASE CommitCancel
    BY <1>3 DEF CommitCancel, SaveDeal, Dead
<1>4. CASE SaveClosed
    BY <1>4 DEF SaveClosed, SaveDeal, Dead
<1>5. ASSUME NEW i \in Investments,
             \/ CreateInvestment(i) \/ ConfirmRead(i) \/ ConfirmOpen(i)
             \/ ConfirmRollback(i) \/ RequestCoolingOffCancel(i)
             \/ WithdrawRead(i) \/ WithdrawSave(i) \/ ExpireLease(i)
      PROVE UNCHANGED dealStatus
    BY <1>5 DEF CreateInvestment, ConfirmRead, ConfirmOpen, ConfirmRollback,
                RequestCoolingOffCancel, WithdrawRead, WithdrawSave, ExpireLease, deal
<1>6. ASSUME NEW j \in Jobs,
             FundEscrow(j) \/ HandleInvestmentFund(j) \/ Job(j) \/ CrashJob(j)
      PROVE UNCHANGED dealStatus
    BY <1>6 DEF FundEscrow, HandleInvestmentFund, CrashJob, Job, GetLease, SetLease,
                ReadInvestment, SubmitTransaction, TransferTradeTokens, ConfirmFunded,
                FinishFunded, AttemptThrows, FailInvestment, ReleaseLease, Settle, deal
<1>7. ASSUME NEW o \in Closers,
             \/ CloseRead(o) \/ Clawback(o) \/ CloseThrows(o) \/ AbandonClosing(o)
             \/ RefundClosed
      PROVE UNCHANGED dealStatus
    BY <1>7 DEF CloseRead, Clawback, CloseThrows, AbandonClosing, RefundClosed, deal
<1>8. ASSUME SweepRead \/ SweepRefund PROVE UNCHANGED dealStatus
    BY <1>8 DEF SweepRead, SweepRefund, deal
<1>9. CASE UNCHANGED vars
    BY <1>1, <1>9 DEF vars, deal
<1> QED
    BY <1>1, <1>2, <1>3, <1>4, <1>5, <1>6, <1>7, <1>8, <1>9 DEF Next, Closing

\* A canceled or expired deal is never revived, whatever confirmations,
\* closers and jobs run beside each other.
THEOREM DeadStaysDeadHolds == Spec => DeadStaysDead
<1>1. [Next]_vars => [Dead => Dead']_vars
    BY DeadStep
<1> QED
    BY <1>1, PTL DEF Spec, DeadStaysDead

-----------------------------------------------------------------------------
(* Without confirmInvestment every confirmed investment is backed.  The      *)
(* invariant is not inductive by itself: it needs that a job past the        *)
(* payment, or past the transfer, has really made it, and that no call of    *)
(* confirmInvestment is under way.                                           *)

BackedTypes ==
    /\ inv \in [Investments -> Statuses]
    /\ job \in [Jobs -> JobSteps \cup {"unsent", "ready", "gone", "dlq"}]
    /\ tokens \in [Investments -> Nat]

NoCalls == \A i \in Investments : call[i].at = "idle"

JobsBacked ==
    \A j \in Jobs :
       /\ job[j] \in {"transfer", "confirm"} => j[1] \in paid
       /\ job[j] = "confirm" => tokens[j[1]] > 0

BackedInv == BackedTypes /\ NoCalls /\ JobsBacked /\ ConfirmedIsBacked

LEMMA BackedInit == Init => BackedInv
BY DEF Init, BackedInv, BackedTypes, NoCalls, JobsBacked, ConfirmedIsBacked, Idle, Statuses

\* Steps that touch none of the variables of the invariant.
LEMMA BackedFrame ==
    BackedInv /\ UNCHANGED <<inv, job, tokens, paid, call>> => BackedInv'
BY DEF BackedInv, BackedTypes, NoCalls, JobsBacked, ConfirmedIsBacked

\* Steps that write only statuses other than 'confirmed'.
LEMMA BackedStatus ==
    ASSUME BackedInv, UNCHANGED <<job, tokens, paid, call>>,
           inv' \in [Investments -> Statuses],
           \A i \in Investments : inv'[i] = inv[i] \/ inv'[i] # "confirmed"
    PROVE  BackedInv'
BY DEF BackedInv, BackedTypes, NoCalls, JobsBacked, ConfirmedIsBacked

\* Steps of a job that move it outside the payment and the transfer.
LEMMA BackedMove ==
    ASSUME BackedInv, NEW j \in Jobs,
           NEW next \in (JobSteps \cup {"unsent", "ready", "gone", "dlq"}) \ {"transfer", "confirm"},
           job' = [job EXCEPT ![j] = next], UNCHANGED <<inv, tokens, paid, call>>
    PROVE  BackedInv'
BY DEF BackedInv, BackedTypes, NoCalls, JobsBacked, ConfirmedIsBacked

\* A transfer makes one investor's count positive and no count smaller.
LEMMA MoreTokens ==
    ASSUME NEW T \in [Investments -> Nat], NEW k \in Investments
    PROVE  LET U == [T EXCEPT ![k] = T[k] + 1]
           IN  /\ U \in [Investments -> Nat]
               /\ U[k] > 0
               /\ \A i \in Investments : T[i] > 0 => U[i] > 0
<1> DEFINE U == [T EXCEPT ![k] = T[k] + 1]
<1>1. T[k] \in Nat /\ T[k] + 1 \in Nat /\ T[k] + 1 > 0
    OBVIOUS
<1>2. U \in [Investments -> Nat] /\ U[k] = T[k] + 1
    BY <1>1
<1>3. \A i \in Investments : i # k => U[i] = T[i]
    OBVIOUS
<1> QED
    BY <1>1, <1>2, <1>3

LEMMA BackedStep ==
    ASSUME "confirm" \notin Ops, BackedInv, [Next]_vars PROVE BackedInv'
<1> USE DEF JobSteps, HeldSteps
<1>1. ASSUME NEW i \in Investments,
             \/ CreateInvestment(i) \/ RequestCoolingOffCancel(i) \/ WithdrawSave(i)
      PROVE BackedInv'
  <2>1. inv' \in [Investments -> Statuses]
      BY <1>1 DEF CreateInvestment, RequestCoolingOffCancel, WithdrawSave, BackedInv,
                  BackedTypes, Statuses
  <2>2. \A n \in Investments : inv'[n] = inv[n] \/ inv'[n] # "confirmed"
      BY <1>1 DEF CreateInvestment, RequestCoolingOffCancel, WithdrawSave, BackedInv,
                  BackedTypes
  <2>3. UNCHANGED <<job, tokens, paid, call>>
      BY <1>1 DEF CreateInvestment, RequestCoolingOffCancel, WithdrawSave, jobs, chain, calls
  <2> QED
      BY <2>1, <2>2, <2>3, BackedStatus
<1>2. ASSUME NEW i \in Investments,
             \/ ConfirmRead(i) \/ ConfirmOpen(i) \/ ConfirmCommit(i) \/ ConfirmRollback(i)
      PROVE FALSE
    BY <1>2 DEF ConfirmRead, ConfirmOpen, ConfirmCommit, ConfirmRollback, BackedInv, NoCalls
<1>3. ASSUME NEW i \in Investments, WithdrawRead(i) \/ ExpireLease(i) PROVE BackedInv'
  <2>1. UNCHANGED <<inv, job, tokens, paid, call>>
      BY <1>3 DEF WithdrawRead, ExpireLease, jobs, chain, calls
  <2> QED
      BY <2>1, BackedFrame
<1>4. ASSUME NEW j \in Jobs,
             \/ FundEscrow(j) \/ HandleInvestmentFund(j) \/ GetLease(j) \/ SetLease(j)
             \/ ReadInvestment(j) \/ FinishFunded(j) \/ ReleaseLease(j) \/ Settle(j)
             \/ CrashJob(j)
      PROVE BackedInv'
  <2>1. PICK next \in {"ready", "get", "set", "read", "submit", "ack", "del", "nack",
                       "gone", "dlq"} : job' = [job EXCEPT ![j] = next]
      BY <1>4 DEF FundEscrow, HandleInvestmentFund, GetLease, SetLease, ReadInvestment,
                  FinishFunded, ReleaseLease, Settle, CrashJob, Go
  <2>2. UNCHANGED <<inv, tokens, paid, call>>
      BY <1>4 DEF FundEscrow, HandleInvestmentFund, GetLease, SetLease, ReadInvestment,
                  FinishFunded, ReleaseLease, Settle, CrashJob, chain, calls
  <2> QED
      BY <2>1, <2>2, BackedMove
<1>5. ASSUME NEW j \in Jobs, SubmitTransaction(j) PROVE BackedInv'
    BY <1>5 DEF SubmitTransaction, Go, calls, BackedInv, BackedTypes, NoCalls, JobsBacked,
                ConfirmedIsBacked
<1>6. ASSUME NEW j \in Jobs, TransferTradeTokens(j) PROVE BackedInv'
  <2>1. j[1] \in Investments
      BY DEF Jobs
  <2>2. /\ tokens' = [tokens EXCEPT ![j[1]] = tokens[j[1]] + 1]
        /\ job' = [job EXCEPT ![j] = "confirm"]
        /\ UNCHANGED <<inv, paid, call>>
        /\ j[1] \in paid
      BY <1>6 DEF TransferTradeTokens, Go, calls, BackedInv, JobsBacked
  <2>3. /\ tokens' \in [Investments -> Nat]
        /\ tokens'[j[1]] > 0
        /\ \A i \in Investments : tokens[i] > 0 => tokens'[i] > 0
    <3>1. tokens \in [Investments -> Nat]
        BY DEF BackedInv, BackedTypes
    <3> QED
        BY <2>1, <2>2, <3>1, MoreTokens
  <2>4. \A n \in Jobs : n[1] \in Investments
      BY DEF Jobs
  <2>5. BackedTypes'
      BY <2>2, <2>3 DEF BackedInv, BackedTypes
  <2>6. JobsBacked'
    <3> SUFFICES ASSUME NEW n \in Jobs
                 PROVE  /\ job'[n] \in {"transfer", "confirm"} => n[1] \in paid'
                        /\ job'[n] = "confirm" => tokens'[n[1]] > 0
        BY DEF JobsBacked
    <3>1. CASE n = j
        BY <3>1, <2>2, <2>3
    <3>2. CASE n # j
      <4>1. job'[n] = job[n]
          BY <3>2, <2>2 DEF BackedInv, BackedTypes
      <4> QED
          BY <4>1, <2>2, <2>3, <2>4 DEF BackedInv, JobsBacked
    <3> QED
        BY <3>1, <3>2
  <2>7. NoCalls' /\ ConfirmedIsBacked'
      BY <2>2, <2>3 DEF BackedInv, NoCalls, ConfirmedIsBacked
  <2> QED
      BY <2>5, <2>6, <2>7 DEF BackedInv
<1>7. ASSUME NEW j \in Jobs, ConfirmFunded(j) PROVE BackedInv'
  <2>1. j[1] \in Investments
      BY DEF Jobs
  <2> QED
      BY <1>7, <2>1 DEF ConfirmFunded, Go, calls, chain, BackedInv, BackedTypes, NoCalls,
                        JobsBacked, ConfirmedIsBacked, Statuses
<1>8. ASSUME NEW j \in Jobs, AttemptThrows(j) PROVE BackedInv'
  <2>1. j[1] \in Investments /\ \A n \in Jobs : n[1] \in Investments
      BY DEF Jobs
  <2>2. PICK next \in {"submit", "fail"} : job' = [job EXCEPT ![j] = next]
      BY <1>8 DEF AttemptThrows, NextAttempt
  <2>3. UNCHANGED <<inv, call>> /\ paid \subseteq paid'
      BY <1>8 DEF AttemptThrows, calls, chain
  <2>4. \/ tokens' = tokens
        \/ tokens' = [tokens EXCEPT ![j[1]] = tokens[j[1]] + 1]
      BY <1>8 DEF AttemptThrows, chain
  <2>5. /\ tokens' \in [Investments -> Nat]
        /\ \A i \in Investments : tokens[i] > 0 => tokens'[i] > 0
    <3>1. tokens \in [Investments -> Nat]
        BY DEF BackedInv, BackedTypes
    <3> QED
        BY <2>1, <2>4, <3>1, MoreTokens
  <2>6. BackedTypes'
      BY <2>2, <2>3, <2>5 DEF BackedInv, BackedTypes
  <2>7. JobsBacked'
    <3> SUFFICES ASSUME NEW n \in Jobs
                 PROVE  /\ job'[n] \in {"transfer", "confirm"} => n[1] \in paid'
                        /\ job'[n] = "confirm" => tokens'[n[1]] > 0
        BY DEF JobsBacked
    <3>1. job'[n] = job[n] \/ job'[n] \in {"submit", "fail"}
        BY <2>2 DEF BackedInv, BackedTypes
    <3> QED
        BY <3>1, <2>1, <2>3, <2>5 DEF BackedInv, JobsBacked
  <2>8. NoCalls' /\ ConfirmedIsBacked'
      BY <2>3, <2>5 DEF BackedInv, NoCalls, ConfirmedIsBacked
  <2> QED
      BY <2>6, <2>7, <2>8 DEF BackedInv
<1>9. ASSUME NEW j \in Jobs, FailInvestment(j) PROVE BackedInv'
  <2>1. j[1] \in Investments
      BY DEF Jobs
  <2> QED
      BY <1>9, <2>1 DEF FailInvestment, Go, calls, chain, BackedInv, BackedTypes, NoCalls,
                        JobsBacked, ConfirmedIsBacked, Statuses
<1>10. ASSUME NEW o \in Closers,
              CloseRead(o) \/ Clawback(o) \/ CloseThrows(o) \/ AbandonClosing(o)
       PROVE BackedInv'
  <2>1. UNCHANGED <<inv, job, tokens, paid, call>>
      BY <1>10 DEF CloseRead, Clawback, CloseThrows, AbandonClosing, jobs, chain, calls
  <2> QED
      BY <2>1, BackedFrame
<1>11. CASE SaveClosed \/ SweepRead \/ UNCHANGED vars
  <2>1. UNCHANGED <<inv, job, tokens, paid, call>>
      BY <1>11 DEF SaveClosed, SweepRead, vars, jobs, chain, calls
  <2> QED
      BY <2>1, BackedFrame
<1>12. CASE CommitCancel \/ RefundClosed \/ SweepRefund
  <2>1. inv' \in [Investments -> Statuses]
      BY <1>12 DEF CommitCancel, RefundClosed, SweepRefund, RefundRead, BackedInv,
                   BackedTypes, Statuses
  <2>2. \A n \in Investments : inv'[n] = inv[n] \/ inv'[n] # "confirmed"
      BY <1>12 DEF CommitCancel, RefundClosed, SweepRefund, RefundRead
  <2>3. UNCHANGED <<job, tokens, paid, call>>
      BY <1>12 DEF CommitCancel, RefundClosed, SweepRefund, jobs, chain, calls
  <2> QED
      BY <2>1, <2>2, <2>3, BackedStatus
<1> QED
    BY <1>1, <1>2, <1>3, <1>4, <1>5, <1>6, <1>7, <1>8, <1>9, <1>10, <1>11, <1>12
       DEF Next, Job, Closing

\* Where investments are confirmed by the investment.fund job only, each
\* confirmed one is paid and has its tokens, whatever fails or is repeated.
THEOREM ConfirmedIsBackedHolds ==
    ASSUME "confirm" \notin Ops PROVE Spec => []ConfirmedIsBacked
<1>1. Init => BackedInv
    BY BackedInit
<1>2. BackedInv /\ [Next]_vars => BackedInv'
    BY BackedStep
<1>3. BackedInv => ConfirmedIsBacked
    BY DEF BackedInv
<1> QED
    BY <1>1, <1>2, <1>3, PTL DEF Spec
-----------------------------------------------------------------------------
(* The books of the deal.  They are kept by confirmInvestment alone, so the  *)
(* theorems leave the investment.fund job out, which confirms without        *)
(* writing the deal; and an investment that is withdrawn or refunded after   *)
(* its confirmation leaves the total behind, so the others may take part     *)
(* only where the CHECK constraints stop what they write.                    *)

BooksOps ==
    /\ "fund" \notin Ops
    /\ SchemaChecks \/ Ops \subseteq {"confirm", "cool"}

BooksTypes ==
    /\ totalInvested \in Nat
    /\ inv \in [Investments -> Statuses]
    /\ call \in [Investments -> [at : {"idle", "checked", "open"}, sum : Nat]]

\* No job runs, the deal is not closed, and nothing that may undo a
\* confirmation is under way.
NothingUndone ==
    /\ \A j \in Jobs : job[j] = "unsent"
    /\ swept = {} /\ dealStatus \notin {"canceled", "expired"}
    /\ ~SchemaChecks => /\ \A i \in Investments : withdrawal[i] = "idle"
                        /\ \A o \in Closers : closing[o].at = "idle"

\* An open transaction has read no more than is confirmed once it commits.
SumsRead ==
    \A i \in Investments : Locked(i) => call[i].sum <= Sum(SeenBy(i))

\* Without an overlap one transaction is open, and what it read is current.
OneReader ==
    ~overlapped =>
       \A i \in Investments : Locked(i) =>
          /\ call[i].sum = Sum(SeenBy(i))
          /\ \A n \in Investments : Locked(n) => n = i

BooksInv ==
    /\ BooksTypes /\ NothingUndone /\ SumsRead /\ OneReader
    /\ TotalNeverOverstated /\ ExactUnlessOverlapping

\* Sums of amounts are naturals, and grow with the set.
LEMMA SumGrows ==
    ASSUME NEW S \in SUBSET Investments, NEW T \in SUBSET S
    PROVE  /\ Sum(S) \in Nat /\ Sum(T) \in Nat
           /\ Sum(T) <= Sum(S)
<1>1. IsFiniteSet(S) /\ IsFiniteSet(T) /\ \A i \in S : Amount[i] \in Nat
    BY FS_Subset, FundingAssumption
<1>2. Total(Amount, S) \in Nat /\ Total(Amount, T) \in Nat
    BY <1>1, TotalNat
<1>3. Total(Amount, T) <= Total(Amount, S)
    BY <1>1, TotalSubset
<1>4. Sum(S) = Total(Amount, S) /\ Sum(T) = Total(Amount, T)
    BY DEF Sum, Total
<1> QED
    BY <1>2, <1>3, <1>4

LEMMA SumEmpty == Sum({}) = 0
<1>1. Total(Amount, {}) = 0
    BY TotalEmpty
<1> QED
    BY <1>1 DEF Sum, Total

LEMMA BooksInit == Init => BooksInv
<1> SUFFICES ASSUME Init PROVE BooksInv
    OBVIOUS
<1>1. Confirmed = {}
    BY DEF Init, Confirmed
<1>2. \A i \in Investments : ~Locked(i)
    BY DEF Init, Idle, Locked
<1>3. totalInvested = 0 /\ Sum(Confirmed) = 0
    BY <1>1, SumEmpty DEF Init
<1>4. TotalValue \in Nat /\ TotalValue > 0
    BY FundingAssumption
<1>5. BooksTypes
    BY DEF Init, BooksTypes, Idle, Statuses
<1>6. NothingUndone
    BY DEF Init, NothingUndone, NotClosing
<1>7. SumsRead /\ OneReader
    BY <1>2 DEF SumsRead, OneReader
<1>8. TotalNeverOverstated /\ ExactUnlessOverlapping
    BY <1>3, <1>4 DEF TotalNeverOverstated, ExactUnlessOverlapping
<1> QED
    BY <1>5, <1>6, <1>7, <1>8 DEF BooksInv

\* Steps that confirm nothing, undo no confirmation and open no transaction.
LEMMA BooksFrame ==
    ASSUME BooksInv, BooksTypes', NothingUndone',
           UNCHANGED <<totalInvested, dealStatus, overlapped>>,
           \A i \in Investments : inv'[i] = "confirmed" <=> inv[i] = "confirmed",
           \A i \in Investments : Locked(i)' => call'[i] = call[i]
    PROVE  BooksInv'
<1>1. Confirmed' = Confirmed
    BY DEF Confirmed
<1>2. Sum(Confirmed)' = Sum(Confirmed)
    BY <1>1 DEF Sum, MapThenSumSet, MapThenFoldSet
<1>3. \A i \in Investments : Sum(SeenBy(i))' = Sum(SeenBy(i))
    BY <1>1 DEF Sum, SeenBy, MapThenSumSet, MapThenFoldSet
<1>4. \A i \in Investments : Locked(i)' => Locked(i) /\ call'[i].sum = call[i].sum
    BY DEF Locked
<1>5. SumsRead' /\ OneReader'
    BY <1>3, <1>4 DEF BooksInv, SumsRead, OneReader
<1>6. TotalNeverOverstated' /\ ExactUnlessOverlapping'
    BY <1>2 DEF BooksInv, TotalNeverOverstated, ExactUnlessOverlapping
<1> QED
    BY <1>5, <1>6 DEF BooksInv

\* Opening the transaction reads a sum that is exact at this moment.
LEMMA BooksOpen ==
    ASSUME BooksInv, NEW i \in Investments, ConfirmOpen(i)
    PROVE  BooksInv'
<1>1. /\ call' = [call EXCEPT ![i] = [at |-> "open", sum |-> Sum(SeenBy(i))]]
      /\ overlapped' = (overlapped \/ \E n \in Investments : Locked(n))
      /\ UNCHANGED <<totalInvested, dealStatus, inv, withdrawal, closing, swept, job>>
    BY DEF ConfirmOpen, deal, admin, jobs
<1>2. Sum(SeenBy(i)) \in Nat
    BY SumGrows DEF SeenBy, Confirmed
<1>3. BooksTypes'
    BY <1>1, <1>2 DEF BooksInv, BooksTypes
<1>4. Confirmed' = Confirmed
    BY <1>1 DEF Confirmed
<1>5. Sum(Confirmed)' = Sum(Confirmed)
    BY <1>4 DEF Sum, MapThenSumSet, MapThenFoldSet
<1>6. \A n \in Investments : Sum(SeenBy(n))' = Sum(SeenBy(n))
    BY <1>4 DEF Sum, SeenBy, MapThenSumSet, MapThenFoldSet
<1>7. /\ call'[i].sum = Sum(SeenBy(i))
      /\ \A n \in Investments : n # i => call'[n] = call[n]
    BY <1>1 DEF BooksInv, BooksTypes
<1>8. SumsRead'
    BY <1>2, <1>6, <1>7 DEF BooksInv, SumsRead, Locked
<1>9. OneReader'
    BY <1>1, <1>6, <1>7 DEF BooksInv, OneReader, Locked
<1>10. TotalNeverOverstated' /\ ExactUnlessOverlapping'
    BY <1>1, <1>5 DEF BooksInv, TotalNeverOverstated, ExactUnlessOverlapping
<1>11. NothingUndone'
    BY <1>1 DEF BooksInv, NothingUndone
<1> QED
    BY <1>3, <1>8, <1>9, <1>10, <1>11 DEF BooksInv

\* The commit writes what the transaction read, which is not more than what is
\* confirmed with it; the sums the other transactions have read stay bounded,
\* since the set of confirmed investments only grows.
LEMMA BooksCommit ==
    ASSUME BooksInv, NEW i \in Investments, ConfirmCommit(i)
    PROVE  BooksInv'
<1>1. /\ Locked(i)
      /\ inv' = [inv EXCEPT ![i] = "confirmed"]
      /\ totalInvested' = call[i].sum
      /\ dealStatus' = StatusAt(call[i].sum)
      /\ call' = [call EXCEPT ![i] = Idle]
      /\ UNCHANGED <<overlapped, withdrawal, closing, swept, job>>
    BY DEF ConfirmCommit, Locked, admin, jobs
<1>2. /\ BooksTypes /\ NothingUndone /\ SumsRead /\ OneReader
      /\ TotalNeverOverstated /\ ExactUnlessOverlapping
    BY DEF BooksInv
<1>3. BooksTypes'
  <2>1. call[i].sum \in Nat
      BY <1>2 DEF BooksTypes
  <2> QED
      BY <1>1, <1>2, <2>1 DEF BooksTypes, Idle, Statuses
<1>4. NothingUndone'
    BY <1>1, <1>2 DEF NothingUndone, StatusAt
<1>5. Confirmed' = SeenBy(i)
    BY <1>1, <1>2 DEF Confirmed, SeenBy, BooksTypes
<1>6. Sum(Confirmed)' = Sum(SeenBy(i))
    BY <1>5 DEF Sum, MapThenSumSet, MapThenFoldSet
<1>7. \A n \in Investments : Locked(n)' => n # i /\ Locked(n) /\ call'[n].sum = call[n].sum
    BY <1>1, <1>2 DEF BooksTypes, Locked, Idle
<1>8. SumsRead'
  <2> SUFFICES ASSUME NEW n \in Investments, Locked(n)'
               PROVE  call'[n].sum <= Sum(SeenBy(n))'
      BY DEF SumsRead
  <2>1. Sum(SeenBy(n))' = Sum(SeenBy(i) \cup {n})
      BY <1>5 DEF SeenBy, Sum, MapThenSumSet, MapThenFoldSet
  <2>2. /\ Sum(SeenBy(i) \cup {n}) \in Nat /\ Sum(SeenBy(n)) \in Nat
        /\ Sum(SeenBy(n)) <= Sum(SeenBy(i) \cup {n})
    <3>1. SeenBy(i) \cup {n} \in SUBSET Investments
        BY DEF SeenBy, Confirmed
    <3>2. SeenBy(n) \in SUBSET (SeenBy(i) \cup {n})
        BY DEF SeenBy
    <3> QED
        BY <3>1, <3>2, SumGrows
  <2>3. call[n].sum \in Nat /\ call[n].sum <= Sum(SeenBy(n)) /\ call'[n].sum = call[n].sum
      BY <1>2, <1>7 DEF BooksTypes, SumsRead
  <2>4. ASSUME NEW a \in Nat, NEW b \in Nat, NEW c \in Nat, a <= b, b <= c PROVE a <= c
      BY <2>4
  <2> QED
      BY <2>1, <2>2, <2>3, <2>4
<1>9. OneReader'
    BY <1>1, <1>2, <1>7 DEF OneReader
<1>10. TotalNeverOverstated'
    BY <1>1, <1>2, <1>6 DEF TotalNeverOverstated, SumsRead
<1>11. ExactUnlessOverlapping'
  <2> SUFFICES ASSUME ~overlapped'
               PROVE  /\ totalInvested' = Sum(Confirmed)'
                      /\ Sum(Confirmed)' >= TotalValue => dealStatus' # "open"
      BY DEF ExactUnlessOverlapping
  <2>1. call[i].sum = Sum(SeenBy(i))
      BY <1>1, <1>2 DEF OneReader
  <2>2. Sum(Confirmed)' >= TotalValue => dealStatus' # "open"
      BY <1>1, <1>6, <2>1 DEF StatusAt
  <2> QED
      BY <1>1, <1>6, <2>1, <2>2
<1> QED
    BY <1>3, <1>4, <1>8, <1>9, <1>10, <1>11 DEF BooksInv
LEMMA BooksStep ==
    ASSUME BooksOps, BooksInv, [Next]_vars PROVE BooksInv'
<1>0. /\ BooksTypes /\ NothingUndone
      /\ SchemaChecks \/ Ops \subseteq {"confirm", "cool"}
      /\ "fund" \notin Ops
    BY DEF BooksInv, BooksOps
<1>1. ASSUME NEW i \in Investments,
             CreateInvestment(i) \/ RequestCoolingOffCancel(i) \/ WithdrawSave(i)
      PROVE BooksInv'
  <2>1. UNCHANGED <<totalInvested, dealStatus, overlapped, call, closing, swept, job>>
      BY <1>1 DEF CreateInvestment, RequestCoolingOffCancel, WithdrawSave, deal, calls,
                  admin, jobs
  <2>2. WithdrawSave(i) => SchemaChecks
      BY <1>0 DEF WithdrawSave, NothingUndone
  <2>3. BooksTypes'
      BY <1>0, <1>1, <2>1 DEF CreateInvestment, RequestCoolingOffCancel, WithdrawSave,
                              BooksTypes, Statuses
  <2>4. \A n \in Investments : inv'[n] = "confirmed" <=> inv[n] = "confirmed"
      BY <1>0, <1>1, <2>2 DEF CreateInvestment, RequestCoolingOffCancel, WithdrawSave,
                              BooksTypes
  <2>5. NothingUndone'
      BY <1>0, <1>1, <2>1, <2>2 DEF CreateInvestment, RequestCoolingOffCancel,
                                    NothingUndone, calls
  <2> QED
      BY <2>1, <2>3, <2>4, <2>5, BooksFrame
<1>2. ASSUME NEW i \in Investments, ConfirmRead(i) \/ ConfirmRollback(i) PROVE BooksInv'
  <2>1. /\ UNCHANGED <<totalInvested, dealStatus, overlapped, inv, withdrawal, closing,
                       swept, job>>
        /\ \/ call' = [call EXCEPT ![i] = [at |-> "checked", sum |-> call[i].sum]]
           \/ call' = [call EXCEPT ![i] = Idle]
      BY <1>0, <1>2 DEF ConfirmRead, ConfirmRollback, deal, admin, jobs, BooksTypes
  <2>2. BooksTypes' /\ NothingUndone'
      BY <1>0, <2>1 DEF BooksTypes, NothingUndone, Idle
  <2>3. \A n \in Investments : Locked(n)' => call'[n] = call[n]
      BY <1>0, <2>1 DEF Locked, BooksTypes, Idle
  <2> QED
      BY <2>1, <2>2, <2>3, BooksFrame
<1>3. ASSUME NEW i \in Investments, WithdrawRead(i) \/ ExpireLease(i) PROVE BooksInv'
  <2>1. /\ UNCHANGED <<totalInvested, dealStatus, overlapped, inv, call, closing, swept,
                       job>>
        /\ WithdrawRead(i) => SchemaChecks
        /\ ExpireLease(i) => UNCHANGED withdrawal
      BY <1>0, <1>3 DEF WithdrawRead, ExpireLease, deal, calls, admin, jobs
  <2>2. BooksTypes' /\ NothingUndone'
      BY <1>0, <1>3, <2>1 DEF BooksTypes, NothingUndone
  <2> QED
      BY <2>1, <2>2, BooksFrame
<1>4. ASSUME NEW j \in Jobs,
             FundEscrow(j) \/ HandleInvestmentFund(j) \/ Job(j) \/ CrashJob(j)
      PROVE FALSE
    BY <1>0, <1>4 DEF FundEscrow, HandleInvestmentFund, CrashJob, Job, GetLease, SetLease,
                ReadInvestment, SubmitTransaction, TransferTradeTokens, ConfirmFunded,
                FinishFunded, AttemptThrows, FailInvestment, ReleaseLease, Settle,
                NothingUndone, JobSteps, HeldSteps
<1>5. ASSUME NEW o \in Closers,
             \/ CloseRead(o) \/ Clawback(o) \/ CloseThrows(o) \/ AbandonClosing(o)
             \/ RefundClosed
      PROVE BooksInv'
  <2>1. UNCHANGED <<totalInvested, dealStatus, overlapped, call, withdrawal, swept, job>>
      BY <1>5 DEF CloseRead, Clawback, CloseThrows, AbandonClosing, RefundClosed, deal,
                  calls, jobs
  <2>2. SchemaChecks
      BY <1>0, <1>5 DEF CloseRead, Clawback, CloseThrows, AbandonClosing, RefundClosed,
                        NothingUndone, Closers
  <2>3. \A n \in Investments : inv'[n] = inv[n]
      BY <1>5, <2>2 DEF CloseRead, Clawback, CloseThrows, AbandonClosing, RefundClosed,
                        RefundRead, Refused
  <2>4. inv' \in [Investments -> Statuses]
      BY <1>0, <1>5, <2>3 DEF CloseRead, Clawback, CloseThrows, AbandonClosing,
                              RefundClosed, RefundRead, BooksTypes, Statuses
  <2>5. BooksTypes' /\ NothingUndone'
      BY <1>0, <2>1, <2>2, <2>4 DEF BooksTypes, NothingUndone
  <2> QED
      BY <2>1, <2>3, <2>5, BooksFrame
<1>6. CASE CommitCancel \/ SaveClosed
  <2>1. SchemaChecks
      BY <1>0, <1>6 DEF CommitCancel, SaveClosed, NothingUndone, Closers
  <2> QED
      BY <1>6, <2>1 DEF CommitCancel, SaveClosed, Refused
<1>7. CASE SweepRead \/ SweepRefund
    BY <1>0, <1>7 DEF SweepRead, SweepRefund, NothingUndone
<1>8. CASE UNCHANGED vars
  <2>1. UNCHANGED <<totalInvested, dealStatus, overlapped, inv, call, withdrawal, closing,
                    swept, job>>
      BY <1>8 DEF vars, deal, calls, admin, jobs
  <2>2. BooksTypes' /\ NothingUndone'
      BY <1>0, <2>1 DEF BooksTypes, NothingUndone
  <2> QED
      BY <2>1, <2>2, BooksFrame
<1> QED
    BY <1>1, <1>2, <1>3, <1>4, <1>5, <1>6, <1>7, <1>8, BooksOpen, BooksCommit
       DEF Next, Closing

\* The books are inductive for any number of concurrent confirmations.
THEOREM BooksInvHolds == ASSUME BooksOps PROVE Spec => []BooksInv
<1>1. Init => BooksInv
    BY BooksInit
<1>2. BooksInv /\ [Next]_vars => BooksInv'
    BY BooksStep
<1> QED
    BY <1>1, <1>2, PTL DEF Spec

\* The deal never claims more money than its confirmed investments add up to,
\* however many confirmations of confirmInvestment interleave and roll back.
THEOREM TotalNeverOverstatedHolds ==
    ASSUME BooksOps PROVE Spec => []TotalNeverOverstated
<1>1. BooksInv => TotalNeverOverstated
    BY DEF BooksInv
<1> QED
    BY <1>1, BooksInvHolds, PTL

\* As long as no two transactions of confirmInvestment were open at once, the
\* total is exact and a deal that is paid in full is not left open.
THEOREM ExactUnlessOverlappingHolds ==
    ASSUME BooksOps PROVE Spec => []ExactUnlessOverlapping
<1>1. BooksInv => ExactUnlessOverlapping
    BY DEF BooksInv
<1> QED
    BY <1>1, BooksInvHolds, PTL
-----------------------------------------------------------------------------
(* The investment.fund job.  A lease names no owner, so what keeps a         *)
(* duplicate away is an argument about all the jobs of an investment at      *)
(* once: each job that may still send tokens has a place in Load beside the  *)
(* transfers that are made, and Load stays within one more than the faults.  *)
(* It stays within the faults alone as long as another job may take the      *)
(* lease of an undecided investment.                                         *)

AllSteps == JobSteps \cup {"unsent", "ready", "gone", "dlq"}

\* The job is past the write that decides its investment.
Past == {"done", "get again", "del", "nack", "dlq"}

\* The job may still come to hold the lease, or holds it.
Live == HeldSteps \cup {"ready", "get", "set"}

\* Not confirmed, failed, cancelled or refunded.
Undecided(i) == inv[i] \in {"none", "pending"}

Held(i) == {c \in Copies : job[<<i, c>>] \in HeldSteps}

\* The copies that go on to send tokens unless something stops them.
Working(i) ==
    {c \in Copies : \/ job[<<i, c>>] \in {"submit", "transfer"}
                    \/ job[<<i, c>>] = "read" /\ inv[i] = "pending"}

Load(i) == tokens[i] + Cardinality(Working(i))

Faults == failures + crashes + expiries

FundTypes ==
    /\ lease \in [Investments -> {"none", "processing", "done"}]
    /\ inv \in [Investments -> Statuses]
    /\ job \in [Jobs -> AllSteps]
    /\ tokens \in [Investments -> Nat]
    /\ failures \in Nat /\ crashes \in Nat /\ expiries \in Nat

Follows(i) ==
    /\ \A c \in Copies : job[<<i, c>>] # "unsent" => inv[i] # "none"
    /\ \A c \in Copies : job[<<i, c>>] \in Past => inv[i] # "pending"

LoadBounded(i) ==
    /\ Load(i) <= 1 + Faults
    /\ Undecided(i) /\ (lease[i] = "none" \/ Held(i) = {}) => Load(i) <= Faults

\* Unless a process died, a lease that is taken and an event that was sent
\* leave a job behind that will decide the investment.
HasJob(i) ==
    crashes = 0 =>
       /\ Undecided(i) /\ lease[i] # "none" => Held(i) # {}
       /\ inv[i] = "pending" /\ (\E c \in Copies : job[<<i, c>>] # "unsent")
            => \E c \in Copies : job[<<i, c>>] \in Live

FundAt(i) == Follows(i) /\ LoadBounded(i) /\ HasJob(i)

FundInv == FundTypes /\ \A i \in Investments : FundAt(i)

\* A set that changes by at most one element.
LEMMA OneMoves ==
    ASSUME NEW C, IsFiniteSet(C), NEW S \in SUBSET C, NEW T \in SUBSET C, NEW c \in C,
           \A d \in C : d # c => (d \in S <=> d \in T)
    PROVE  /\ Cardinality(S) \in Nat /\ Cardinality(T) \in Nat
           /\ Cardinality(T) <= Cardinality(S) + 1
           /\ (c \in T => c \in S) => Cardinality(T) <= Cardinality(S)
           /\ c \in S /\ c \notin T => Cardinality(T) + 1 <= Cardinality(S)
<1>1. IsFiniteSet(S) /\ IsFiniteSet(T)
    BY FS_Subset
<1>2. Cardinality(S) \in Nat /\ Cardinality(T) \in Nat
    BY <1>1, FS_CardinalityType
<1>3. CASE c \in S /\ c \notin T
  <2>1. T = S \ {c}
      BY <1>3
  <2>2. Cardinality(T) = Cardinality(S) - 1
      BY <1>1, <1>3, <2>1, FS_RemoveElement
  <2> QED
      BY <1>2, <1>3, <2>2
<1>4. CASE c \notin S /\ c \in T
  <2>1. T = S \cup {c}
      BY <1>4
  <2>2. Cardinality(T) = Cardinality(S) + 1
      BY <1>1, <1>4, <2>1, FS_AddElement
  <2> QED
      BY <1>2, <1>4, <2>2
<1>5. CASE c \in S <=> c \in T
  <2>1. S = T
      BY <1>5
  <2> QED
      BY <1>2, <1>5, <2>1
<1> QED
    BY <1>3, <1>4, <1>5

\* Loads and faults are naturals.
LEMMA LoadTypes ==
    FundTypes =>
       /\ Faults \in Nat
       /\ \A i \in Investments :
             /\ Load(i) \in Nat /\ tokens[i] \in Nat
             /\ Cardinality(Working(i)) \in Nat
<1> SUFFICES ASSUME FundTypes
             PROVE  /\ Faults \in Nat
                    /\ \A i \in Investments :
                          /\ Load(i) \in Nat /\ tokens[i] \in Nat
                          /\ Cardinality(Working(i)) \in Nat
    OBVIOUS
<1>1. Faults \in Nat
    BY DEF Faults, FundTypes
<1>2. ASSUME NEW i \in Investments
      PROVE  /\ Load(i) \in Nat /\ tokens[i] \in Nat
             /\ Cardinality(Working(i)) \in Nat
  <2>1. IsFiniteSet(Working(i))
      BY FS_Subset, FundingAssumption DEF Working
  <2>2. Cardinality(Working(i)) \in Nat
      BY <2>1, FS_CardinalityType
  <2>3. tokens[i] \in Nat
      BY <1>2 DEF FundTypes
  <2> QED
      BY <2>2, <2>3 DEF Load
<1> QED
    BY <1>1, <1>2

LEMMA LoadTypesNext == (FundTypes =>
       /\ Faults \in Nat
       /\ \A i \in Investments :
             /\ Load(i) \in Nat /\ tokens[i] \in Nat
             /\ Cardinality(Working(i)) \in Nat)'
BY LoadTypes, PTL

LEMMA FundInit == Init => FundInv
<1> SUFFICES ASSUME Init PROVE FundInv
    OBVIOUS
<1>1. FundTypes
    BY FundingAssumption DEF Init, LeaseInit, FundTypes, Statuses, AllSteps
<1>2. ASSUME NEW i \in Investments PROVE FundAt(i)
  <2>1. \A c \in Copies : job[<<i, c>>] = "unsent"
      BY DEF Init, Jobs
  <2>2. Working(i) = {} /\ Held(i) = {}
      BY <2>1 DEF Working, Held, HeldSteps
  <2>3. Load(i) = 0 /\ Faults = 0 /\ lease[i] = "none" /\ inv[i] = "none"
    <3>1. tokens[i] = 0 /\ Cardinality(Working(i)) = 0
        BY <2>2, FS_EmptySet DEF Init
    <3>2. lease[i] = "none" /\ inv[i] = "none"
        BY FundingAssumption DEF Init, LeaseInit
    <3> QED
        BY <3>1, <3>2 DEF Init, Load, Faults
  <2> QED
      BY <2>1, <2>3 DEF FundAt, Follows, LoadBounded, HasJob, Past
<1> QED
    BY <1>1, <1>2 DEF FundInv

\* Steps that leave an investment, its jobs and its lease alone, decide it, or
\* create it.
LEMMA FundFrame ==
    ASSUME FundTypes, FundTypes', NEW i \in Investments, FundAt(i),
           \A c \in Copies : job'[<<i, c>>] = job[<<i, c>>],
           lease'[i] = lease[i], tokens'[i] = tokens[i],
           \/ inv'[i] = inv[i]
           \/ inv'[i] \notin {"none", "pending"}
           \/ inv[i] = "none" /\ inv'[i] = "pending",
           Faults <= Faults', crashes <= crashes'
    PROVE  FundAt(i)'
<1>1. Held(i)' = Held(i)
    BY DEF Held
<1>2. Working(i)' \subseteq Working(i)
    BY DEF Working, FundAt, Follows
<1>3. /\ Cardinality(Working(i)') <= Cardinality(Working(i))
      /\ Cardinality(Working(i)') = Cardinality(Working(i))'
  <2>1. IsFiniteSet(Working(i))
      BY FS_Subset, FundingAssumption DEF Working
  <2> QED
      BY <1>2, <2>1, FS_Subset
<1>4. Load(i)' <= Load(i) /\ Load(i)' \in Nat /\ Load(i) \in Nat
  <2>1. ASSUME NEW a \in Nat, NEW b \in Nat, NEW t \in Nat, b <= a
        PROVE  t + b <= t + a
      BY <2>1
  <2>2. /\ Cardinality(Working(i)) \in Nat /\ Cardinality(Working(i))' \in Nat
        /\ tokens[i] \in Nat
        /\ Load(i) \in Nat /\ Load(i)' \in Nat
      BY LoadTypes, LoadTypesNext
  <2>3. Load(i)' = tokens[i] + Cardinality(Working(i))'
      BY DEF Load
  <2> QED
      BY <1>3, <2>1, <2>2, <2>3 DEF Load
<1>5. LoadBounded(i)'
  <2>1. ASSUME NEW a \in Nat, NEW b \in Nat, NEW f \in Nat, NEW g \in Nat,
               b <= a, f <= g
        PROVE  /\ a <= f => b <= g
               /\ a <= 1 + f => b <= 1 + g
      BY <2>1
  <2>2. Faults \in Nat /\ Faults' \in Nat
      BY LoadTypes, LoadTypesNext
  <2>3. /\ Load(i) <= Faults => Load(i)' <= Faults'
        /\ Load(i) <= 1 + Faults => Load(i)' <= 1 + Faults'
      BY <1>4, <2>1, <2>2
  <2>4. Undecided(i)' => Undecided(i)
      BY DEF Undecided
  <2> QED
      BY <1>1, <2>3, <2>4 DEF FundAt, LoadBounded
<1>6. Follows(i)'
    BY DEF FundAt, Follows, Past
<1>7. HasJob(i)'
  <2>1. crashes' = 0 => crashes = 0
      BY DEF FundTypes
  <2> QED
      BY <1>1, <2>1 DEF FundAt, Follows, HasJob, Undecided
<1> QED
    BY <1>5, <1>6, <1>7 DEF FundAt
\* A step of one job, seen from the jobs at work on its investment.
LEMMA WorkingMoves ==
    ASSUME NEW i \in Investments, NEW c \in Copies, inv'[i] = inv[i],
           \A d \in Copies : d # c => job'[<<i, d>>] = job[<<i, d>>]
    PROVE  /\ Cardinality(Working(i))' <= Cardinality(Working(i)) + 1
           /\ (c \in Working(i)' => c \in Working(i)) =>
                 Cardinality(Working(i))' <= Cardinality(Working(i))
           /\ c \in Working(i) /\ c \notin Working(i)' =>
                 Cardinality(Working(i))' + 1 <= Cardinality(Working(i))
<1>1. \A d \in Copies : d # c => (d \in Working(i) <=> d \in Working(i)')
    BY DEF Working
<1>2. Working(i) \in SUBSET Copies /\ Working(i)' \in SUBSET Copies
    BY DEF Working
<1>3. Cardinality(Working(i)') = Cardinality(Working(i))'
    OBVIOUS
<1>4. IsFiniteSet(Copies)
    BY FundingAssumption
<1> HIDE DEF Working
<1> QED
    BY <1>1, <1>2, <1>3, <1>4, OneMoves

\* A step of one job, seen from all jobs.
LEMMA JobMoves ==
    ASSUME FundTypes, NEW i \in Investments, NEW c \in Copies, NEW b,
           job' = [job EXCEPT ![<<i, c>>] = b]
    PROVE  /\ job'[<<i, c>>] = b
           /\ \A d \in Copies : d # c => job'[<<i, d>>] = job[<<i, d>>]
           /\ \A n \in Investments : n # i =>
                 \A d \in Copies : job'[<<n, d>>] = job[<<n, d>>]
<1>1. /\ job'[<<i, c>>] = b
      /\ \A n \in Investments, d \in Copies :
            <<n, d>> # <<i, c>> => job'[<<n, d>>] = job[<<n, d>>]
    BY DEF FundTypes, Jobs
<1> QED
    BY <1>1

\* A step of a job that leaves the status of the investment alone.  A job that
\* held the lease lets go of it when the investment is decided or, which the
\* caller accounts for, when its process dies; one that gives up before finds
\* the lease taken.
LEMMA FundMove ==
    ASSUME FundTypes, FundTypes', NEW i \in Investments, NEW c \in Copies, NEW b,
           FundAt(i), job' = [job EXCEPT ![<<i, c>>] = b], inv'[i] = inv[i],
           LoadBounded(i)',
           crashes' = 0 => crashes = 0,
           b # "unsent",
           job[<<i, c>>] = "unsent" => inv[i] = "pending" /\ b = "ready",
           b \in Past => job[<<i, c>>] \in Past,
           crashes' = 0 =>
              /\ job[<<i, c>>] \in HeldSteps /\ b \notin HeldSteps => ~Undecided(i)
              /\ job[<<i, c>>] \in Live \ HeldSteps /\ b \notin Live => lease[i] # "none"
              /\ lease'[i] # "none" => lease[i] # "none" \/ b \in HeldSteps \/ ~Undecided(i)
    PROVE  FundAt(i)'
<1>1. /\ job'[<<i, c>>] = b
      /\ \A d \in Copies : d # c => job'[<<i, d>>] = job[<<i, d>>]
    BY JobMoves, ZenonT(60)
<1>2. Follows(i)'
    BY <1>1 DEF FundAt, Follows
<1>3. HasJob(i)'
  <2> SUFFICES ASSUME crashes' = 0
               PROVE  /\ Undecided(i)' /\ lease'[i] # "none" => Held(i)' # {}
                      /\ inv'[i] = "pending" =>
                           \E d \in Copies : job'[<<i, d>>] \in Live
      BY DEF HasJob
  <2>1. /\ Undecided(i) /\ lease[i] # "none" => Held(i) # {}
        /\ inv[i] = "pending" /\ (\E d \in Copies : job[<<i, d>>] # "unsent")
             => \E d \in Copies : job[<<i, d>>] \in Live
      BY DEF FundAt, HasJob
  <2>2. Undecided(i)' = Undecided(i)
      BY DEF Undecided
  <2>3. b \in HeldSteps => c \in Held(i)'
      BY <1>1 DEF Held
  <2>4. \A d \in Copies : d # c /\ d \in Held(i) => d \in Held(i)'
      BY <1>1 DEF Held
  <2>5. c \in Held(i) => job[<<i, c>>] \in HeldSteps
      BY DEF Held
  <2>6. Undecided(i) /\ lease[i] # "none" => Held(i)' # {}
    <3> SUFFICES ASSUME Undecided(i), lease[i] # "none" PROVE Held(i)' # {}
        OBVIOUS
    <3>1. PICK d \in Copies : d \in Held(i)
        BY <2>1 DEF Held
    <3> QED
        BY <3>1, <2>3, <2>4, <2>5
  <2>7. Undecided(i)' /\ lease'[i] # "none" => Held(i)' # {}
      BY <2>2, <2>3, <2>6
  <2>8. ASSUME inv'[i] = "pending" PROVE \E d \in Copies : job'[<<i, d>>] \in Live
    <3>1. Undecided(i) /\ inv[i] = "pending"
        BY <2>8 DEF Undecided
    <3>2. CASE b \in Live
        BY <1>1, <3>2
    <3>3. CASE b \notin Live
      <4>1. b \notin HeldSteps /\ b # "ready"
          BY <3>3 DEF Live
      <4>2. job[<<i, c>>] # "unsent" /\ job[<<i, c>>] \notin HeldSteps
          BY <3>1, <4>1
      <4>3. CASE job[<<i, c>>] \in Live
        <5>1. lease[i] # "none"
            BY <3>3, <4>2, <4>3
        <5>2. PICK d \in Copies : d \in Held(i)'
            BY <3>1, <5>1, <2>6 DEF Held
        <5>3. job'[<<i, d>>] \in Live
            BY <5>2 DEF Held, Live
        <5> QED
            BY <5>3
      <4>4. CASE job[<<i, c>>] \notin Live
        <5>1. PICK d \in Copies : job[<<i, d>>] \in Live
            BY <2>1, <3>1, <4>2
        <5> QED
            BY <1>1, <4>4, <5>1
      <4> QED
          BY <4>3, <4>4
    <3> QED
        BY <3>2, <3>3
  <2> QED
      BY <2>7, <2>8
<1> QED
    BY <1>2, <1>3 DEF FundAt

\* The bound on the load survives a step that adds to the load no more than to
\* the faults and, unless the investment is decided, keeps a job at the lease.
LEMMA LoadStep ==
    ASSUME FundTypes, FundTypes', NEW i \in Investments, LoadBounded(i),
           Load(i)' + Faults <= Load(i) + Faults',
           \/ ~Undecided(i)'
           \/ /\ Undecided(i)
              /\ lease'[i] = "none" \/ Held(i)' = {} => lease[i] = "none" \/ Held(i) = {}
           \/ Load(i)' + Faults + 1 <= Load(i) + Faults'
    PROVE  LoadBounded(i)'
<1>1. Faults \in Nat /\ Faults' \in Nat /\ Load(i) \in Nat /\ Load(i)' \in Nat
    BY LoadTypes, LoadTypesNext
<1>2. ASSUME NEW f \in Nat, NEW g \in Nat, NEW a \in Nat, NEW b \in Nat,
             b + f <= a + g, a <= 1 + f
      PROVE  /\ b <= 1 + g
             /\ a <= f => b <= g
             /\ b + f + 1 <= a + g => b <= g
    BY <1>2
<1>3. /\ Load(i)' <= 1 + Faults'
      /\ Load(i) <= Faults => Load(i)' <= Faults'
      /\ Load(i)' + Faults + 1 <= Load(i) + Faults' => Load(i)' <= Faults'
    BY <1>1, <1>2 DEF LoadBounded
<1> QED
    BY <1>3 DEF LoadBounded
\* Arithmetic of the loads.
LEMMA AddsLess ==
    /\ \A f, t, u, w \in Nat : w <= u => t + w + f <= t + u + f
    /\ \A f \in Nat : f <= f /\ f + 1 # 0
OBVIOUS

\* A step whose effect is on one investment.
LEMMA FundOne ==
    ASSUME FundInv, FundTypes', NEW i \in Investments, FundAt(i)',
           \A n \in Investments : n # i =>
              /\ \A d \in Copies : job'[<<n, d>>] = job[<<n, d>>]
              /\ lease'[n] = lease[n] /\ tokens'[n] = tokens[n] /\ inv'[n] = inv[n],
           Faults <= Faults', crashes <= crashes'
    PROVE  FundInv'
<1>1. ASSUME NEW n \in Investments, n # i PROVE FundAt(n)'
    BY <1>1, FundFrame DEF FundInv
<1> QED
    BY <1>1 DEF FundInv

\* The effect of a step of a job that writes neither status nor lease nor
\* tokens, from the pair of steps it moves between.
LEMMA FundQuiet ==
    ASSUME FundInv, NEW i \in Investments, NEW c \in Copies, NEW b \in AllSteps,
           job' = [job EXCEPT ![<<i, c>>] = b],
           UNCHANGED <<lease, inv, tokens, failures, crashes, expiries>>,
           b # "unsent" /\ b # "read",
           job[<<i, c>>] = "unsent" => inv[i] = "pending" /\ b = "ready",
           b \in Past => job[<<i, c>>] \in Past,
           b = "submit" => job[<<i, c>>] = "read" /\ inv[i] = "pending",
           b = "transfer" => job[<<i, c>>] = "submit",
           job[<<i, c>>] \in HeldSteps /\ b \notin HeldSteps => ~Undecided(i),
           job[<<i, c>>] \in Live \ HeldSteps /\ b \notin Live => lease[i] # "none"
    PROVE  FundInv'
<1>1. FundTypes /\ FundAt(i)
    BY DEF FundInv
<1>2. FundTypes'
    BY <1>1 DEF FundTypes, Jobs
<1>3. /\ job'[<<i, c>>] = b
      /\ \A d \in Copies : d # c => job'[<<i, d>>] = job[<<i, d>>]
      /\ \A n \in Investments : n # i => \A d \in Copies : job'[<<n, d>>] = job[<<n, d>>]
      /\ (c \in Working(i)' => c \in Working(i)) =>
            Cardinality(Working(i))' <= Cardinality(Working(i))
  <2>1. inv'[i] = inv[i]
      OBVIOUS
  <2> QED
      BY <1>1, <2>1, JobMoves, WorkingMoves
<1>4. Cardinality(Working(i))' <= Cardinality(Working(i))
  <2>1. c \in Working(i)' => c \in Working(i)
      BY <1>3 DEF Working
  <2> QED
      BY <1>3, <2>1
<1>5. Faults' = Faults /\ Faults \in Nat
    BY <1>1, LoadTypes DEF Faults
<1>6. Load(i)' + Faults <= Load(i) + Faults'
  <2>1. ASSUME NEW f \in Nat, NEW t \in Nat, NEW v \in Nat, NEW w \in Nat, w <= v
        PROVE  t + w + f <= t + v + f
      BY <2>1
  <2>2. tokens'[i] = tokens[i] /\ tokens[i] \in Nat
      BY <1>1, LoadTypes
  <2>3. Cardinality(Working(i)) \in Nat /\ Cardinality(Working(i))' \in Nat
      BY <1>1, <1>2, LoadTypes, LoadTypesNext
  <2>4. Load(i)' = tokens[i] + Cardinality(Working(i))'
      BY <2>2 DEF Load
  <2> QED
      BY <1>4, <1>5, <2>1, <2>2, <2>3, <2>4 DEF Load
<1>7. Undecided(i)' = Undecided(i)
    BY DEF Undecided
<1>8. LoadBounded(i)'
  <2>1. Undecided(i) /\ Held(i)' = {} => Held(i) = {}
      BY <1>3 DEF Held
  <2>2. LoadBounded(i)
      BY <1>1 DEF FundAt
  <2>3. \/ ~Undecided(i)'
        \/ /\ Undecided(i)
           /\ lease'[i] = "none" \/ Held(i)' = {} => lease[i] = "none" \/ Held(i) = {}
      BY <1>7, <2>1
  <2> QED
      BY <1>1, <1>2, <1>6, <2>2, <2>3, LoadStep
<1>9. FundAt(i)'
  <2>1. lease'[i] = lease[i] /\ inv'[i] = inv[i] /\ crashes' = crashes
      OBVIOUS
  <2> QED
      BY <1>1, <1>2, <1>8, <2>1, FundMove
<1>10. Faults <= Faults' /\ crashes <= crashes'
    BY <1>1, <1>5 DEF FundTypes
<1> QED
    BY <1>2, <1>3, <1>9, <1>10, FundOne

\* A job is one copy of the message of an investment.
LEMMA JobPair ==
    ASSUME NEW j \in Jobs
    PROVE  \E i \in Investments, c \in Copies : j = <<i, c>>
<1>1. j[1] \in Investments /\ j[2] \in Copies /\ j = <<j[1], j[2]>>
    BY DEF Jobs
<1> QED
    BY <1>1

\* The steps of a job before it submits, and after its work is done.
LEMMA FundQuietSteps ==
    ASSUME FundInv, NEW j \in Jobs,
           \/ FundEscrow(j) \/ HandleInvestmentFund(j) \/ GetLease(j)
           \/ SetLease(j) /\ GetTaken(j[1]) /\ Go(j, "ack")
           \/ ReadInvestment(j) \/ SubmitTransaction(j) \/ Settle(j)
           \/ ReleaseLease(j) /\ job[j] = "get again"
    PROVE  FundInv'
<1>1. PICK i \in Investments, c \in Copies : j = <<i, c>>
    BY JobPair
<1>2. FundAt(i) /\ Follows(i)
    BY DEF FundInv, FundAt
<1> USE DEF Go
<1>3. UNCHANGED <<lease, inv, tokens, failures, crashes, expiries>>
    BY DEF FundEscrow, HandleInvestmentFund, GetLease, SetLease, ReadInvestment,
           SubmitTransaction, Settle, ReleaseLease, GetFree, GetTaken, GetProcessing,
           GetOther, chain, bounds
<1>4. PICK b : /\ job' = [job EXCEPT ![<<i, c>>] = b]
               /\ \/ job[<<i, c>>] = "unsent" /\ b = "ready" /\ inv[i] = "pending"
                  \/ job[<<i, c>>] = "ready" /\ b = "get"
                  \/ job[<<i, c>>] = "get" /\ b = "set"
                  \/ job[<<i, c>>] \in {"get", "set"} /\ b = "ack" /\ lease[i] # "none"
                  \/ job[<<i, c>>] = "read" /\ b = "submit" /\ inv[i] = "pending"
                  \/ job[<<i, c>>] = "read" /\ b = "ack" /\ inv[i] # "pending"
                  \/ job[<<i, c>>] = "submit" /\ b = "transfer"
                  \/ job[<<i, c>>] = "get again" /\ b \in {"del", "nack"}
                  \/ job[<<i, c>>] = "ack" /\ b = "gone"
                  \/ job[<<i, c>>] = "nack" /\ b = "dlq"
  <2>1. j[1] = i
      BY <1>1
  <2>2. CASE FundEscrow(j)
      BY <1>1, <2>1, <2>2 DEF FundEscrow
  <2>3. CASE HandleInvestmentFund(j) \/ SubmitTransaction(j)
      BY <1>1, <2>3 DEF HandleInvestmentFund, SubmitTransaction
  <2>4. CASE GetLease(j)
      BY <1>1, <2>1, <2>4 DEF GetLease, GetFree, GetTaken
  <2>5. CASE SetLease(j) /\ GetTaken(j[1]) /\ Go(j, "ack")
      BY <1>1, <2>1, <2>5 DEF SetLease, GetTaken
  <2>6. CASE ReadInvestment(j)
    <3>1. CASE inv[i] = "pending"
        BY <1>1, <2>1, <2>6, <3>1 DEF ReadInvestment
    <3>2. CASE inv[i] # "pending"
        BY <1>1, <2>1, <2>6, <3>2 DEF ReadInvestment
    <3> QED
        BY <3>1, <3>2
  <2>7. CASE Settle(j)
      BY <1>1, <2>7 DEF Settle
  <2>8. CASE ReleaseLease(j) /\ job[j] = "get again"
    <3>1. \/ job' = [job EXCEPT ![j] = "del"]
          \/ job' = [job EXCEPT ![j] = "nack"]
        BY <2>8 DEF ReleaseLease
    <3> QED
        BY <1>1, <2>8, <3>1
  <2> QED
      BY <2>2, <2>3, <2>4, <2>5, <2>6, <2>7, <2>8
<1>5. b \in AllSteps /\ b # "unsent" /\ b # "read"
    BY <1>4 DEF AllSteps, JobSteps, HeldSteps
<1>6. /\ job[<<i, c>>] = "unsent" => inv[i] = "pending" /\ b = "ready"
      /\ b \in Past => job[<<i, c>>] \in Past
      /\ b = "submit" => job[<<i, c>>] = "read" /\ inv[i] = "pending"
      /\ b = "transfer" => job[<<i, c>>] = "submit"
    BY <1>4 DEF Past
<1>7. job[<<i, c>>] \in HeldSteps /\ b \notin HeldSteps => ~Undecided(i)
    BY <1>2, <1>4 DEF HeldSteps, Follows, Past, Undecided
<1>8. job[<<i, c>>] \in Live \ HeldSteps /\ b \notin Live => lease[i] # "none"
    BY <1>4 DEF HeldSteps, Live
<1> QED
    BY <1>3, <1>4, <1>5, <1>6, <1>7, <1>8, FundQuiet
\* Taking the lease makes one more job work on an undecided investment, for
\* which the lease being free has left room.
LEMMA FundTakesLease ==
    ASSUME FundInv, NEW i \in Investments, NEW c \in Copies,
           job[<<i, c>>] = "set", job' = [job EXCEPT ![<<i, c>>] = "read"],
           lease[i] = "none", lease' = [lease EXCEPT ![i] = "processing"],
           UNCHANGED <<inv, tokens, failures, crashes, expiries>>
    PROVE  FundInv'
<1>1. FundTypes /\ FundAt(i) /\ inv'[i] = inv[i]
    BY DEF FundInv
<1>2. FundTypes'
    BY <1>1 DEF FundTypes, Jobs, AllSteps, JobSteps, HeldSteps
<1>3. /\ job'[<<i, c>>] = "read"
      /\ \A n \in Investments : n # i => \A d \in Copies : job'[<<n, d>>] = job[<<n, d>>]
      /\ Cardinality(Working(i))' <= Cardinality(Working(i)) + 1
      /\ (c \in Working(i)' => c \in Working(i)) =>
            Cardinality(Working(i))' <= Cardinality(Working(i))
  <2>1. job'[<<i, c>>] = "read"
      BY <1>1 DEF FundTypes, Jobs
  <2>2. \A n \in Investments, d \in Copies :
           <<n, d>> # <<i, c>> => job'[<<n, d>>] = job[<<n, d>>]
      BY <1>1 DEF FundTypes, Jobs
  <2>3. /\ \A d \in Copies : d # c => job'[<<i, d>>] = job[<<i, d>>]
        /\ \A n \in Investments : n # i =>
              \A d \in Copies : job'[<<n, d>>] = job[<<n, d>>]
      BY <2>2
  <2> QED
      BY <1>1, <2>1, <2>3, WorkingMoves
<1>4. lease'[i] # "none" /\ \A n \in Investments : n # i => lease'[n] = lease[n]
    BY <1>1 DEF FundTypes
<1>5. Faults' = Faults /\ Faults \in Nat /\ crashes' = crashes
    BY <1>1, LoadTypes DEF Faults
<1>6. Load(i)' <= 1 + Faults
  <2>1. ASSUME NEW f \in Nat, NEW t \in Nat, NEW v \in Nat, NEW w \in Nat
        PROVE  /\ w <= v + 1 /\ t + v <= f => t + w <= 1 + f
               /\ w <= v /\ t + v <= 1 + f => t + w <= 1 + f
      BY <2>1
  <2>2. tokens'[i] = tokens[i] /\ tokens[i] \in Nat
      BY <1>1, LoadTypes
  <2>3. Cardinality(Working(i)) \in Nat /\ Cardinality(Working(i))' \in Nat
      BY <1>1, <1>2, LoadTypes, LoadTypesNext
  <2>4. Load(i)' = tokens[i] + Cardinality(Working(i))'
      BY <2>2 DEF Load
  <2>5. tokens[i] + Cardinality(Working(i)) <= 1 + Faults
      BY <1>1 DEF FundAt, LoadBounded, Load
  <2>6. CASE inv[i] = "pending"
    <3>1. tokens[i] + Cardinality(Working(i)) <= Faults
        BY <1>1, <2>6 DEF FundAt, LoadBounded, Load, Undecided
    <3> QED
        BY <1>3, <1>5, <2>1, <2>2, <2>3, <2>4, <3>1
  <2>7. CASE inv[i] # "pending"
    <3>1. Cardinality(Working(i))' <= Cardinality(Working(i))
        BY <1>3, <2>7 DEF Working
    <3> QED
        BY <1>5, <2>1, <2>2, <2>3, <2>4, <2>5, <3>1
  <2> QED
      BY <2>6, <2>7
<1>7. LoadBounded(i)'
  <2>1. Held(i)' # {}
      BY <1>3 DEF Held, HeldSteps
  <2> QED
      BY <1>4, <1>5, <1>6, <2>1 DEF LoadBounded
<1>8. FundAt(i)'
  <2>1. "read" \in HeldSteps /\ "read" \in Live /\ "read" \notin Past
      BY DEF HeldSteps, Live, Past
  <2> QED
      BY <1>1, <1>2, <1>5, <1>7, <2>1, FundMove
<1>9. Faults <= Faults' /\ crashes <= crashes'
    BY <1>1, <1>5 DEF FundTypes
<1> QED
    BY <1>2, <1>3, <1>4, <1>8, <1>9, FundOne

\* The transfer moves one from the jobs at work to the transfers made.
LEMMA FundTransfers ==
    ASSUME FundInv, NEW i \in Investments, NEW c \in Copies,
           job[<<i, c>>] = "transfer", job' = [job EXCEPT ![<<i, c>>] = "confirm"],
           tokens' = [tokens EXCEPT ![i] = tokens[i] + 1],
           UNCHANGED <<lease, inv, failures, crashes, expiries>>
    PROVE  FundInv'
<1>1. /\ FundTypes /\ FundAt(i) /\ LoadBounded(i)
      /\ inv'[i] = inv[i] /\ lease'[i] = lease[i] /\ crashes' = crashes
    BY DEF FundInv, FundAt
<1>2. /\ tokens' \in [Investments -> Nat]
      /\ tokens'[i] = tokens[i] + 1
      /\ \A n \in Investments : n # i => tokens'[n] = tokens[n]
  <2>1. tokens \in [Investments -> Nat] /\ tokens[i] + 1 \in Nat
      BY <1>1 DEF FundTypes
  <2> QED
      BY <2>1
<1>3. FundTypes'
    BY <1>1, <1>2 DEF FundTypes, Jobs, AllSteps, JobSteps, HeldSteps
<1>4. /\ job'[<<i, c>>] = "confirm"
      /\ \A n \in Investments : n # i => \A d \in Copies : job'[<<n, d>>] = job[<<n, d>>]
      /\ c \in Working(i) /\ c \notin Working(i)' =>
            Cardinality(Working(i))' + 1 <= Cardinality(Working(i))
  <2>1. job'[<<i, c>>] = "confirm"
      BY <1>1 DEF FundTypes, Jobs
  <2>2. \A n \in Investments, d \in Copies :
           <<n, d>> # <<i, c>> => job'[<<n, d>>] = job[<<n, d>>]
      BY <1>1 DEF FundTypes, Jobs
  <2>3. /\ \A d \in Copies : d # c => job'[<<i, d>>] = job[<<i, d>>]
        /\ \A n \in Investments : n # i =>
              \A d \in Copies : job'[<<n, d>>] = job[<<n, d>>]
      BY <2>2
  <2> QED
      BY <1>1, <2>1, <2>3, WorkingMoves
<1>5. Faults' = Faults /\ Faults \in Nat
    BY <1>1, LoadTypes DEF Faults
<1>6. Load(i)' + Faults <= Load(i) + Faults'
  <2>1. ASSUME NEW f \in Nat, NEW t \in Nat, NEW v \in Nat, NEW w \in Nat, w + 1 <= v
        PROVE  t + 1 + w + f <= t + v + f
      BY <2>1
  <2>2. tokens[i] \in Nat
      BY <1>1, LoadTypes
  <2>3. Cardinality(Working(i)) \in Nat /\ Cardinality(Working(i))' \in Nat
      BY <1>1, <1>3, LoadTypes, LoadTypesNext
  <2>4. Load(i)' = tokens[i] + 1 + Cardinality(Working(i))'
      BY <1>2 DEF Load
  <2>5. Cardinality(Working(i))' + 1 <= Cardinality(Working(i))
    <3>1. c \in Working(i) /\ c \notin Working(i)'
        BY <1>4 DEF Working
    <3> QED
        BY <1>4, <3>1
  <2> QED
      BY <1>5, <2>1, <2>2, <2>3, <2>4, <2>5 DEF Load
<1>7. LoadBounded(i)'
  <2>1. Held(i)' # {}
      BY <1>4 DEF Held, HeldSteps
  <2>2. Undecided(i)' = Undecided(i)
      BY <1>1 DEF Undecided
  <2>3. \/ ~Undecided(i)'
        \/ /\ Undecided(i)
           /\ lease'[i] = "none" \/ Held(i)' = {} => lease[i] = "none" \/ Held(i) = {}
      BY <1>1, <2>1, <2>2
  <2> QED
      BY <1>1, <1>3, <1>6, <2>3, LoadStep
<1>8. FundAt(i)'
  <2>1. "confirm" \in HeldSteps /\ "confirm" \in Live /\ "confirm" \notin Past
      BY DEF HeldSteps, Live, Past
  <2> QED
      BY <1>1, <1>3, <1>7, <2>1, FundMove
<1>9. Faults <= Faults' /\ crashes <= crashes'
    BY <1>1, <1>5 DEF FundTypes
<1> QED
    BY <1>2, <1>3, <1>4, <1>8, <1>9, FundOne

\* A job that has decided its investment writes the lease and leaves.
LEMMA FundLeaves ==
    ASSUME FundInv, NEW i \in Investments, NEW c \in Copies,
           NEW b \in {"ack", "nack"}, NEW v \in {"none", "done"},
           job[<<i, c>>] \in {"done", "del"}, job' = [job EXCEPT ![<<i, c>>] = b],
           lease' = [lease EXCEPT ![i] = v],
           UNCHANGED <<inv, tokens, failures, crashes, expiries>>
    PROVE  FundInv'
<1>1. /\ FundTypes /\ FundAt(i) /\ LoadBounded(i) /\ Follows(i)
      /\ inv'[i] = inv[i] /\ tokens'[i] = tokens[i] /\ crashes' = crashes
    BY DEF FundInv, FundAt
<1>2. FundTypes'
    BY <1>1 DEF FundTypes, Jobs, AllSteps, JobSteps
<1>3. /\ job'[<<i, c>>] = b
      /\ \A n \in Investments : n # i => \A d \in Copies : job'[<<n, d>>] = job[<<n, d>>]
      /\ (c \in Working(i)' => c \in Working(i)) =>
            Cardinality(Working(i))' <= Cardinality(Working(i))
    BY <1>1, JobMoves, WorkingMoves, ZenonT(60)
<1>4. \A n \in Investments : n # i => lease'[n] = lease[n]
    BY <1>1 DEF FundTypes
<1>5. ~Undecided(i) /\ ~Undecided(i)'
    BY <1>1 DEF Follows, Undecided, Past
<1>6. Faults' = Faults /\ Faults \in Nat
    BY <1>1, LoadTypes DEF Faults
<1>7. Load(i)' + Faults <= Load(i) + Faults'
  <2>1. ASSUME NEW f \in Nat, NEW t \in Nat, NEW u \in Nat, NEW w \in Nat, w <= u
        PROVE  t + w + f <= t + u + f
      BY <2>1
  <2>2. Cardinality(Working(i)) \in Nat /\ Cardinality(Working(i))' \in Nat
        /\ tokens[i] \in Nat
      BY <1>1, <1>2, LoadTypes, LoadTypesNext
  <2>3. Load(i)' = tokens[i] + Cardinality(Working(i))'
      BY <1>1 DEF Load
  <2>4. Cardinality(Working(i))' <= Cardinality(Working(i))
      BY <1>3 DEF Working
  <2> QED
      BY <1>6, <2>1, <2>2, <2>3, <2>4 DEF Load
<1>8. LoadBounded(i)'
    BY <1>1, <1>2, <1>5, <1>7, LoadStep
<1>9. FundAt(i)'
  <2>1. /\ b # "unsent" /\ b # "ready" /\ job[<<i, c>>] # "unsent"
        /\ job[<<i, c>>] \in Past /\ job[<<i, c>>] \in HeldSteps
      BY DEF Past, HeldSteps
  <2> QED
      BY <1>1, <1>2, <1>5, <1>8, <2>1, FundMove
<1>10. Faults <= Faults' /\ crashes <= crashes'
    BY <1>1, <1>6 DEF FundTypes
<1> QED
    BY <1>1, <1>2, <1>3, <1>4, <1>9, <1>10, FundOne
\* What a failed call, or a process that dies, adds to the load it adds to the
\* faults.
LEMMA FundFaults ==
    ASSUME FundInv, NEW i \in Investments, NEW c \in Copies, NEW b \in AllSteps,
           job' = [job EXCEPT ![<<i, c>>] = b],
           UNCHANGED <<lease, inv, expiries>>,
           tokens' \in [Investments -> Nat],
           \A n \in Investments : n # i => tokens'[n] = tokens[n],
           \/ /\ failures' = failures + 1 /\ crashes' = crashes
              /\ job[<<i, c>>] \in {"submit", "transfer", "confirm"}
              /\ b \in {"submit", "fail"}
              /\ \/ tokens'[i] = tokens[i]
                 \/ tokens'[i] = tokens[i] + 1 /\ job[<<i, c>>] = "transfer"
           \/ /\ failures' = failures /\ crashes' = crashes + 1
              /\ job[<<i, c>>] # "unsent" /\ b = "ready" /\ tokens'[i] = tokens[i]
    PROVE  FundInv'
<1>1. /\ FundTypes /\ FundAt(i) /\ LoadBounded(i) /\ Follows(i)
      /\ inv'[i] = inv[i] /\ lease'[i] = lease[i]
    BY DEF FundInv, FundAt
<1>2. FundTypes'
  <2>1. failures' \in Nat /\ crashes' \in Nat
      BY <1>1 DEF FundTypes
  <2> QED
      BY <1>1, <2>1 DEF FundTypes, Jobs
<1>3. /\ job'[<<i, c>>] = b
      /\ \A d \in Copies : d # c => job'[<<i, d>>] = job[<<i, d>>]
      /\ \A n \in Investments : n # i => \A d \in Copies : job'[<<n, d>>] = job[<<n, d>>]
    BY <1>1, JobMoves
<1>4. Faults' = Faults + 1 /\ Faults \in Nat /\ crashes <= crashes'
    BY <1>1, LoadTypes DEF Faults, FundTypes
<1>5. /\ Cardinality(Working(i))' <= Cardinality(Working(i)) + 1
      /\ job[<<i, c>>] \in {"submit", "transfer"} \/ b = "ready" =>
            Cardinality(Working(i))' <= Cardinality(Working(i))
  <2>1. job[<<i, c>>] \in {"submit", "transfer"} \/ b = "ready" =>
            (c \in Working(i)' => c \in Working(i))
      BY <1>3 DEF Working
  <2> QED
      BY <1>1, <1>3, <2>1, WorkingMoves
<1>6. /\ Load(i)' + Faults <= Load(i) + Faults'
      /\ b = "ready" => Load(i)' + Faults + 1 <= Load(i) + Faults'
  <2>1. ASSUME NEW f \in Nat, NEW t \in Nat, NEW u \in Nat, NEW v \in Nat, NEW w \in Nat,
               \/ u = t /\ w <= v + 1
               \/ u = t + 1 /\ w <= v
        PROVE  /\ u + w + f <= t + v + (f + 1)
               /\ u = t /\ w <= v => u + w + f + 1 <= t + v + (f + 1)
      BY <2>1
  <2>2. tokens[i] \in Nat /\ tokens'[i] \in Nat
      BY <1>1, LoadTypes
  <2>3. Cardinality(Working(i)) \in Nat /\ Cardinality(Working(i))' \in Nat
      BY <1>1, <1>2, LoadTypes, LoadTypesNext
  <2>4. Load(i)' = tokens'[i] + Cardinality(Working(i))'
      BY DEF Load
  <2>5. \/ /\ tokens'[i] = tokens[i]
           /\ Cardinality(Working(i))' <= Cardinality(Working(i)) + 1
        \/ /\ tokens'[i] = tokens[i] + 1
           /\ Cardinality(Working(i))' <= Cardinality(Working(i))
      BY <1>5
  <2>6. b = "ready" => /\ tokens'[i] = tokens[i]
                       /\ Cardinality(Working(i))' <= Cardinality(Working(i))
      BY <1>5
  <2> QED
      BY <1>4, <2>1, <2>2, <2>3, <2>4, <2>5, <2>6 DEF Load
<1>7. Undecided(i)' = Undecided(i)
    BY <1>1 DEF Undecided
<1>8. LoadBounded(i)'
  <2>1. CASE b = "ready"
      BY <1>1, <1>2, <1>6, <2>1, LoadStep
  <2>2. CASE b \in {"submit", "fail"}
    <3>1. Held(i)' # {}
        BY <1>3, <2>2 DEF Held, HeldSteps
    <3>2. \/ ~Undecided(i)'
          \/ /\ Undecided(i)
             /\ lease'[i] = "none" \/ Held(i)' = {} => lease[i] = "none" \/ Held(i) = {}
        BY <1>1, <1>7, <3>1
    <3> QED
        BY <1>1, <1>2, <1>6, <3>2, LoadStep
  <2> QED
      BY <2>1, <2>2
<1>9. FundAt(i)'
  <2>1. b # "unsent" /\ b \notin Past /\ job[<<i, c>>] # "unsent"
      BY DEF Past
  <2>2. crashes' = 0 => crashes = 0 /\ b \in {"submit", "fail"}
    <3>1. crashes + 1 # 0
        BY <1>1, AddsLess DEF FundTypes
    <3> QED
        BY <3>1
  <2>3. b \in {"submit", "fail"} => b \in HeldSteps /\ b \in Live
      BY DEF HeldSteps, Live
  <2> QED
      BY <1>1, <1>2, <1>8, <2>1, <2>2, <2>3, FundMove
<1>10. Faults <= Faults'
    BY <1>4
<1>11. \A n \in Investments : lease'[n] = lease[n] /\ inv'[n] = inv[n]
    OBVIOUS
<1> QED
    BY <1>2, <1>3, <1>4, <1>9, <1>10, <1>11, FundOne

\* A job decides its investment.
LEMMA FundDecides ==
    ASSUME FundInv, NEW i \in Investments, NEW c \in Copies,
           NEW b \in {"done", "get again"}, NEW v \in {"confirmed", "failed"},
           job[<<i, c>>] # "unsent",
           job' = [job EXCEPT ![<<i, c>>] = b], inv' = [inv EXCEPT ![i] = v],
           UNCHANGED <<lease, tokens, failures, crashes, expiries>>
    PROVE  FundInv'
<1>1. /\ FundTypes /\ FundAt(i) /\ LoadBounded(i)
      /\ tokens'[i] = tokens[i] /\ crashes' = crashes
    BY DEF FundInv, FundAt
<1>2. FundTypes'
    BY <1>1 DEF FundTypes, Jobs, AllSteps, JobSteps, HeldSteps, Statuses
<1>3. /\ job'[<<i, c>>] = b
      /\ \A d \in Copies : d # c => job'[<<i, d>>] = job[<<i, d>>]
      /\ \A n \in Investments : n # i => \A d \in Copies : job'[<<n, d>>] = job[<<n, d>>]
    BY <1>1, JobMoves
<1>4. inv'[i] = v /\ \A n \in Investments : n # i => inv'[n] = inv[n]
    BY <1>1 DEF FundTypes
<1>5. Faults' = Faults /\ Faults \in Nat
    BY <1>1, LoadTypes DEF Faults
<1>6. Cardinality(Working(i))' <= Cardinality(Working(i))
  <2>1. Working(i)' \subseteq Working(i)
      BY <1>3, <1>4 DEF Working
  <2>2. IsFiniteSet(Working(i))
      BY FS_Subset, FundingAssumption DEF Working
  <2>3. Cardinality(Working(i)') = Cardinality(Working(i))'
      OBVIOUS
  <2> HIDE DEF Working
  <2> QED
      BY <2>1, <2>2, <2>3, FS_Subset
<1>7. Load(i)' + Faults <= Load(i) + Faults'
  <2>1. Cardinality(Working(i)) \in Nat /\ Cardinality(Working(i))' \in Nat
        /\ tokens[i] \in Nat
      BY <1>1, <1>2, LoadTypes, LoadTypesNext
  <2>2. Load(i)' = tokens[i] + Cardinality(Working(i))'
      BY <1>1 DEF Load
  <2> QED
      BY <1>5, <1>6, <2>1, <2>2, AddsLess DEF Load
<1>8. ~Undecided(i)'
    BY <1>4 DEF Undecided
<1>9. LoadBounded(i)'
    BY <1>1, <1>2, <1>7, <1>8, LoadStep
<1>10. Follows(i)' /\ HasJob(i)'
    BY <1>4, <1>8 DEF Follows, HasJob
<1>11. FundAt(i)'
    BY <1>9, <1>10 DEF FundAt
<1>12. Faults <= Faults' /\ crashes <= crashes'
  <2>1. crashes \in Nat
      BY <1>1 DEF FundTypes
  <2> QED
      BY <1>1, <1>5, <2>1, AddsLess
<1>13. \A n \in Investments : lease'[n] = lease[n] /\ tokens'[n] = tokens[n]
    OBVIOUS
<1> QED
    BY <1>2, <1>3, <1>4, <1>11, <1>12, <1>13, FundOne

\* A lease that runs out makes room for another job; it is counted as a fault
\* unless no job of the investment is left.
LEMMA FundExpires ==
    ASSUME FundInv, NEW i \in Investments, ExpireLease(i)
    PROVE  FundInv'
<1>1. /\ FundTypes /\ FundAt(i) /\ LoadBounded(i) /\ Follows(i) /\ HasJob(i)
    BY DEF FundInv, FundAt
<1>2. /\ lease' = [lease EXCEPT ![i] = "none"]
      /\ UNCHANGED <<inv, job, tokens, failures, crashes>>
      /\ expiries' = expiries + 1 \/ expiries' = expiries
      /\ expiries' = expiries => Held(i) = {}
  <2>1. /\ lease' = [lease EXCEPT ![i] = "none"]
        /\ UNCHANGED <<inv, job, tokens, failures, crashes>>
      BY DEF ExpireLease, Expire, Del, jobs, chain
  <2>2. expiries \in Nat
      BY <1>1 DEF FundTypes
  <2>3. CASE \E c \in Copies : job[<<i, c>>] \in JobSteps
    <3>1. expiries' = expiries + 1
        BY <2>3 DEF ExpireLease
    <3> QED
        BY <2>1, <2>2, <3>1
  <2>4. CASE ~\E c \in Copies : job[<<i, c>>] \in JobSteps
    <3>1. expiries' = expiries
        BY <2>4 DEF ExpireLease
    <3>2. Held(i) = {}
        BY <2>4 DEF Held, JobSteps
    <3> QED
        BY <2>1, <3>1, <3>2
  <2> QED
      BY <2>3, <2>4
<1>3. FundTypes'
  <2>1. expiries' \in Nat
      BY <1>1, <1>2 DEF FundTypes
  <2> QED
      BY <1>1, <1>2, <2>1 DEF FundTypes
<1>4. lease'[i] = "none" /\ \A n \in Investments : n # i => lease'[n] = lease[n]
    BY <1>1, <1>2 DEF FundTypes
<1>5. /\ Held(i)' = Held(i) /\ Working(i)' = Working(i) /\ Undecided(i)' = Undecided(i)
    BY <1>2 DEF Held, Working, Undecided
<1>6. Load(i)' = Load(i)
    BY <1>2, <1>5 DEF Load
<1>7. /\ Faults \in Nat /\ Faults' \in Nat /\ Load(i) \in Nat
      /\ Faults' = Faults + 1 \/ Faults' = Faults
      /\ Faults' = Faults => Held(i) = {}
  <2>1. ASSUME NEW f \in Nat, NEW c \in Nat, NEW e \in Nat
        PROVE  f + c + (e + 1) = f + c + e + 1 /\ f + c + (e + 1) # f + c + e
      BY <2>1
  <2>2. Faults' = failures + crashes + expiries'
      BY <1>2 DEF Faults
  <2>3. failures \in Nat /\ crashes \in Nat /\ expiries \in Nat
      BY <1>1 DEF FundTypes
  <2>4. Faults \in Nat /\ Faults' \in Nat /\ Load(i) \in Nat
      BY <1>1, <1>3, LoadTypes, LoadTypesNext
  <2> QED
      BY <1>2, <2>1, <2>2, <2>3, <2>4 DEF Faults
<1>8. LoadBounded(i)'
  <2>1. CASE Faults' = Faults
    <3>1. Load(i)' + Faults <= Load(i) + Faults'
        BY <1>6, <1>7, <2>1
    <3>2. Held(i) = {}
        BY <1>7, <2>1
    <3> QED
        BY <1>1, <1>3, <1>5, <3>1, <3>2, LoadStep
  <2>2. CASE Faults' = Faults + 1
    <3>1. /\ Load(i)' + Faults <= Load(i) + Faults'
          /\ Load(i)' + Faults + 1 <= Load(i) + Faults'
        BY <1>6, <1>7, <2>2
    <3> QED
        BY <1>1, <1>3, <3>1, LoadStep
  <2> QED
      BY <1>7, <2>1, <2>2
<1>9. Follows(i)' /\ HasJob(i)'
    BY <1>1, <1>2, <1>4 DEF Follows, HasJob
<1>10. FundAt(i)'
    BY <1>8, <1>9 DEF FundAt
<1>11. Faults <= Faults' /\ crashes <= crashes'
    BY <1>1, <1>2, <1>7 DEF FundTypes
<1>12. \A n \in Investments :
          /\ tokens'[n] = tokens[n] /\ inv'[n] = inv[n]
          /\ \A d \in Copies : job'[<<n, d>>] = job[<<n, d>>]
    BY <1>2
<1> QED
    BY <1>3, <1>4, <1>10, <1>11, <1>12, FundOne
\* Steps of others: they write the status of investments, and may fail.
LEMMA FundOthers ==
    ASSUME FundInv, UNCHANGED <<lease, job, tokens, crashes, expiries>>,
           failures' \in {failures, failures + 1},
           inv' \in [Investments -> Statuses],
           \A i \in Investments : \/ inv'[i] = inv[i]
                                  \/ inv'[i] \notin {"none", "pending"}
                                  \/ inv[i] = "none" /\ inv'[i] = "pending"
    PROVE  FundInv'
<1>1. FundTypes /\ failures \in Nat /\ crashes \in Nat /\ expiries \in Nat
    BY DEF FundInv, FundTypes
<1>2. FundTypes'
    BY <1>1 DEF FundTypes
<1>3. Faults <= Faults' /\ crashes <= crashes'
  <2>1. ASSUME NEW f \in Nat, NEW g \in {f, f + 1}, NEW c \in Nat, NEW e \in Nat
        PROVE  f + c + e <= g + c + e /\ c <= c
      BY <2>1
  <2> QED
      BY <1>1, <2>1 DEF Faults
<1>4. ASSUME NEW i \in Investments PROVE FundAt(i)'
  <2>1. lease'[i] = lease[i] /\ tokens'[i] = tokens[i]
      OBVIOUS
  <2> QED
      BY <1>1, <1>2, <1>3, <2>1, FundFrame DEF FundInv
<1> QED
    BY <1>2, <1>4 DEF FundInv

LEMMA FundStep == FundInv /\ [Next]_vars => FundInv'
<1> SUFFICES ASSUME FundInv, [Next]_vars PROVE FundInv'
    OBVIOUS
<1>0. /\ inv \in [Investments -> Statuses] /\ tokens \in [Investments -> Nat]
      /\ \A i \in Investments : tokens[i] + 1 \in Nat
    BY DEF FundInv, FundTypes
<1>1. ASSUME NEW i \in Investments,
             \/ CreateInvestment(i) \/ RequestCoolingOffCancel(i) \/ WithdrawSave(i)
             \/ ConfirmCommit(i)
      PROVE FundInv'
  <2>1. UNCHANGED <<lease, job, tokens, failures, crashes, expiries>>
      BY <1>1 DEF CreateInvestment, RequestCoolingOffCancel, WithdrawSave, ConfirmCommit,
                  jobs, chain, bounds
  <2>2. inv' \in [Investments -> Statuses]
      BY <1>0, <1>1 DEF CreateInvestment, RequestCoolingOffCancel, WithdrawSave,
                        ConfirmCommit, Statuses
  <2>3. \A n \in Investments : \/ inv'[n] = inv[n]
                               \/ inv'[n] \notin {"none", "pending"}
                               \/ inv[n] = "none" /\ inv'[n] = "pending"
      BY <1>0, <1>1 DEF CreateInvestment, RequestCoolingOffCancel, WithdrawSave,
                        ConfirmCommit
  <2> QED
      BY <2>1, <2>2, <2>3, FundOthers
<1>2. ASSUME NEW i \in Investments,
             ConfirmRead(i) \/ ConfirmOpen(i) \/ ConfirmRollback(i) \/ WithdrawRead(i)
      PROVE FundInv'
  <2>1. /\ UNCHANGED <<lease, job, tokens, inv, crashes, expiries>>
        /\ failures' \in {failures, failures + 1}
      BY <1>2 DEF ConfirmRead, ConfirmOpen, ConfirmRollback, WithdrawRead, Fault, jobs,
                  chain, bounds
  <2> QED
      BY <1>0, <2>1, FundOthers
<1>3. ASSUME NEW j \in Jobs, SetLease(j) PROVE FundInv'
  <2>1. PICK i \in Investments, c \in Copies : j = <<i, c>>
      BY JobPair
  <2>2. CASE GetTaken(j[1]) /\ Go(j, "ack")
      BY <1>3, <2>2, FundQuietSteps
  <2>3. CASE SetNX(j[1]) /\ Go(j, "read")
    <3>1. /\ job[<<i, c>>] = "set" /\ job' = [job EXCEPT ![<<i, c>>] = "read"]
          /\ lease[i] = "none" /\ lease' = [lease EXCEPT ![i] = "processing"]
          /\ UNCHANGED <<inv, tokens, failures, crashes, expiries>>
        BY <1>3, <2>1, <2>3 DEF SetLease, SetNX, Go, chain, bounds
    <3> QED
        BY <3>1, FundTakesLease
  <2> QED
      BY <1>3, <2>2, <2>3 DEF SetLease
<1>4. ASSUME NEW j \in Jobs, TransferTradeTokens(j) PROVE FundInv'
  <2>1. PICK i \in Investments, c \in Copies : j = <<i, c>>
      BY JobPair
  <2>2. /\ job[<<i, c>>] = "transfer" /\ job' = [job EXCEPT ![<<i, c>>] = "confirm"]
        /\ tokens' = [tokens EXCEPT ![i] = tokens[i] + 1]
        /\ UNCHANGED <<lease, inv, failures, crashes, expiries>>
      BY <1>4, <2>1 DEF TransferTradeTokens, Go, bounds
  <2> QED
      BY <2>2, FundTransfers
<1>5. ASSUME NEW j \in Jobs, FinishFunded(j) PROVE FundInv'
  <2>1. PICK i \in Investments, c \in Copies : j = <<i, c>>
      BY JobPair
  <2>2. /\ job[<<i, c>>] = "done" /\ job' = [job EXCEPT ![<<i, c>>] = "ack"]
        /\ lease' = [lease EXCEPT ![i] = "done"]
        /\ UNCHANGED <<inv, tokens, failures, crashes, expiries>>
      BY <1>5, <2>1 DEF FinishFunded, MarkDone, Go, chain, bounds
  <2> QED
      BY <2>2, FundLeaves
<1>6. ASSUME NEW j \in Jobs, ReleaseLease(j) PROVE FundInv'
  <2>1. PICK i \in Investments, c \in Copies : j = <<i, c>>
      BY JobPair
  <2>2. CASE job[j] = "get again"
      BY <1>6, <2>2, FundQuietSteps
  <2>3. CASE job[j] = "del"
    <3>1. /\ job[<<i, c>>] = "del" /\ job' = [job EXCEPT ![<<i, c>>] = "nack"]
          /\ lease' = [lease EXCEPT ![i] = "none"]
          /\ UNCHANGED <<inv, tokens, failures, crashes, expiries>>
        BY <1>6, <2>1, <2>3 DEF ReleaseLease, Del, Go, chain, bounds
    <3> QED
        BY <3>1, FundLeaves
  <2> QED
      BY <1>6, <2>2, <2>3 DEF ReleaseLease
<1>7. ASSUME NEW j \in Jobs, AttemptThrows(j) PROVE FundInv'
  <2>1. PICK i \in Investments, c \in Copies : j = <<i, c>>
      BY JobPair
  <2>2. PICK b \in {"submit", "fail"} : job' = [job EXCEPT ![<<i, c>>] = b]
      BY <1>7, <2>1 DEF AttemptThrows, NextAttempt
  <2>3. /\ UNCHANGED <<lease, inv, expiries>>
        /\ failures' = failures + 1 /\ crashes' = crashes
        /\ job[<<i, c>>] \in {"submit", "transfer", "confirm"}
        /\ \/ tokens' = tokens
           \/ /\ tokens' = [tokens EXCEPT ![i] = tokens[i] + 1]
              /\ job[<<i, c>>] = "transfer"
      BY <1>7, <2>1 DEF AttemptThrows, Fault, chain
  <2>4. /\ tokens' \in [Investments -> Nat]
        /\ \A n \in Investments : n # i => tokens'[n] = tokens[n]
        /\ \/ tokens'[i] = tokens[i]
           \/ tokens'[i] = tokens[i] + 1 /\ job[<<i, c>>] = "transfer"
    <3>1. CASE tokens' = tokens
        BY <1>0, <3>1
    <3>2. CASE /\ tokens' = [tokens EXCEPT ![i] = tokens[i] + 1]
               /\ job[<<i, c>>] = "transfer"
        BY <1>0, <3>2
    <3> QED
        BY <2>3, <3>1, <3>2
  <2>5. b \in AllSteps
      BY DEF AllSteps, JobSteps, HeldSteps
  <2> QED
      BY <2>2, <2>3, <2>4, <2>5, FundFaults
<1>8. ASSUME NEW j \in Jobs, CrashJob(j) PROVE FundInv'
  <2>1. PICK i \in Investments, c \in Copies : j = <<i, c>>
      BY JobPair
  <2>2. PICK b \in AllSteps : b = "ready" /\ job' = [job EXCEPT ![<<i, c>>] = b]
      BY <1>8, <2>1 DEF CrashJob, Go, AllSteps
  <2>3. /\ UNCHANGED <<lease, inv, expiries, tokens>>
        /\ failures' = failures /\ crashes' = crashes + 1
        /\ job[<<i, c>>] # "unsent"
      BY <1>8, <2>1 DEF CrashJob, chain, JobSteps, HeldSteps
  <2>4. /\ tokens' \in [Investments -> Nat]
        /\ \A n \in Investments : tokens'[n] = tokens[n]
      BY <1>0, <2>3
  <2> QED
      BY <2>2, <2>3, <2>4, FundFaults
<1>9. ASSUME NEW j \in Jobs, ConfirmFunded(j) \/ FailInvestment(j) PROVE FundInv'
  <2>1. PICK i \in Investments, c \in Copies : j = <<i, c>>
      BY JobPair
  <2>2. PICK b \in {"done", "get again"}, v \in {"confirmed", "failed"} :
              /\ job' = [job EXCEPT ![<<i, c>>] = b]
              /\ inv' = [inv EXCEPT ![i] = v]
    <3>1. CASE ConfirmFunded(j)
        BY <2>1, <3>1 DEF ConfirmFunded, Go
    <3>2. CASE FailInvestment(j)
        BY <2>1, <3>2 DEF FailInvestment, Go
    <3> QED
        BY <1>9, <3>1, <3>2
  <2>3. /\ job[<<i, c>>] # "unsent"
        /\ UNCHANGED <<lease, tokens, failures, crashes, expiries>>
      BY <1>9, <2>1 DEF ConfirmFunded, FailInvestment, chain, bounds
  <2> QED
      BY <2>2, <2>3, FundDecides
<1>10. ASSUME NEW o \in Closers,
              CloseRead(o) \/ Clawback(o) \/ CloseThrows(o) \/ AbandonClosing(o)
       PROVE FundInv'
  <2>1. /\ UNCHANGED <<lease, job, tokens, inv, crashes, expiries>>
        /\ failures' \in {failures, failures + 1}
      BY <1>10 DEF CloseRead, Clawback, CloseThrows, AbandonClosing, Fault, jobs,
                   chain, bounds
  <2> QED
      BY <1>0, <2>1, FundOthers
<1>11. CASE SaveClosed \/ SweepRead \/ UNCHANGED vars
  <2>1. UNCHANGED <<lease, job, tokens, inv, failures, crashes, expiries>>
      BY <1>11 DEF SaveClosed, SweepRead, vars, jobs, chain, bounds
  <2> QED
      BY <1>0, <2>1, FundOthers
<1>12. CASE CommitCancel \/ RefundClosed \/ SweepRefund
  <2>1. UNCHANGED <<lease, job, tokens, failures, crashes, expiries>>
      BY <1>12 DEF CommitCancel, RefundClosed, SweepRefund, jobs, chain, bounds
  <2>2. inv' \in [Investments -> Statuses]
      BY <1>0, <1>12 DEF CommitCancel, RefundClosed, SweepRefund, RefundRead, Statuses
  <2>3. \A n \in Investments : inv'[n] = inv[n] \/ inv'[n] \notin {"none", "pending"}
      BY <1>12 DEF CommitCancel, RefundClosed, SweepRefund, RefundRead
  <2> QED
      BY <2>1, <2>2, <2>3, FundOthers
<1> QED
    BY <1>1, <1>2, <1>3, <1>4, <1>5, <1>6, <1>7, <1>8, <1>9, <1>10, <1>11, <1>12,
       FundQuietSteps, FundExpires
       DEF Next, Job, Closing

\* The accounts of leases, jobs and transfers hold with every operation in use.
THEOREM FundInvHolds == Spec => []FundInv
BY FundInit, FundStep, PTL DEF Spec

\* Duplicates of investment.fund do not send trade tokens again: every
\* transfer beyond the first goes with a failed call, a crash or a lease that
\* expired under its job, whatever else runs beside the jobs.
THEOREM ExtraTokensNeedFaultHolds == Spec => []ExtraTokensNeedFault
<1>1. FundInv => ExtraTokensNeedFault
  <2> SUFFICES ASSUME FundInv, NEW i \in Investments
               PROVE  tokens[i] <= 1 + failures + crashes + expiries
      BY DEF ExtraTokensNeedFault
  <2>1. ASSUME NEW t \in Nat, NEW w \in Nat, NEW f \in Nat, NEW c \in Nat, NEW e \in Nat,
               t + w <= 1 + (f + c + e)
        PROVE  t <= 1 + f + c + e
      BY <2>1
  <2>2. tokens[i] \in Nat /\ Cardinality(Working(i)) \in Nat
      BY LoadTypes DEF FundInv
  <2>3. failures \in Nat /\ crashes \in Nat /\ expiries \in Nat
      BY DEF FundInv, FundTypes
  <2>4. tokens[i] + Cardinality(Working(i)) <= 1 + (failures + crashes + expiries)
      BY DEF FundInv, FundAt, LoadBounded, Load, Faults
  <2> QED
      BY <2>1, <2>2, <2>3, <2>4
<1> QED
    BY <1>1, FundInvHolds, PTL

\* Unless a process died, the messages of an investment's funding do not all
\* leave the queue before it is decided.
THEOREM FundingDecidedHolds == Spec => []FundingDecided
<1>1. FundInv => FundingDecided
  <2> SUFFICES ASSUME FundInv, crashes = 0, NEW i \in Investments, inv[i] = "pending",
                      NEW c \in Copies, job[<<i, c>>] # "unsent"
               PROVE  \E d \in Copies : /\ job[<<i, d>>] # "unsent"
                                        /\ job[<<i, d>>] \notin {"gone", "dlq"}
      BY DEF FundingDecided
  <2>1. PICK d \in Copies : job[<<i, d>>] \in Live
      BY DEF FundInv, FundAt, HasJob
  <2> QED
      BY <2>1 DEF Live, HeldSteps
<1> QED
    BY <1>1, FundInvHolds, PTL

-----------------------------------------------------------------------------
(* Types.  FundInv has those of leases, investments and jobs; what is left  *)
(* is that no sum read or written exceeds the sum of all investments, and   *)
(* that a job which counts a failed attempt has one left (Retries).         *)

Deals == {"open", "funded", "canceled", "expired"}
Totals == 0..Sum(Investments)
Confirmations == [at : {"idle", "checked", "open"}, sum : Totals]
Closings == [at : {"idle", "clawback", "refund", "save"}, refunds : SUBSET Investments,
             known : SUBSET Investments, total : Totals]

DealTypes ==
    /\ dealStatus \in Deals /\ totalInvested \in Totals
    /\ call \in [Investments -> Confirmations]
    /\ closing \in [Closers -> Closings]

RequestTypes ==
    /\ withdrawal \in [Investments -> {"idle", "read"}]
    /\ swept \subseteq Investments /\ paid \subseteq Investments

BoundTypes ==
    /\ crashes \in 0..MaxCrashes /\ failures \in 0..MaxFailures
    /\ expiries \in 0..MaxExpiries

Retries ==
    /\ attempts \in [Jobs -> 0..MaxAttempts]
    /\ \A j \in Jobs :
          job[j] \in {"get", "set", "read", "submit", "transfer", "confirm"}
             => attempts[j] < MaxAttempts

LEMMA TotalsOK ==
    /\ 0 \in Totals
    /\ \A S \in SUBSET Investments : Sum(S) \in Totals
<1>1. \A S \in SUBSET Investments : Sum(S) \in Nat /\ Sum(Investments) \in Nat
                                     /\ Sum(S) <= Sum(Investments)
    BY SumGrows
<1> QED
    BY <1>1 DEF Totals

LEMMA RecordsOK ==
    /\ Idle \in Confirmations
    /\ NotClosing \in Closings
    /\ \A S \in SUBSET Investments : [at |-> "open", sum |-> Sum(S)] \in Confirmations
    /\ \A S, T \in SUBSET Investments, n \in Totals :
          [at |-> "clawback", refunds |-> S, known |-> T, total |-> n] \in Closings
    /\ \A c \in Confirmations : [c EXCEPT !.at = "checked"] \in Confirmations
    /\ \A c \in Closings, a \in {"refund", "save"} : [c EXCEPT !.at = a] \in Closings
BY TotalsOK DEF Idle, NotClosing, Confirmations, Closings

LEMMA TypesInit ==
    Init => DealTypes /\ RequestTypes /\ BoundTypes /\ overlapped \in BOOLEAN /\ Retries
<1> SUFFICES ASSUME Init
             PROVE  DealTypes /\ RequestTypes /\ BoundTypes /\ overlapped \in BOOLEAN /\ Retries
    OBVIOUS
<1>1. DealTypes
    BY TotalsOK, RecordsOK DEF Init, DealTypes, Deals
<1>2. RequestTypes
    BY DEF Init, RequestTypes
<1>3. Retries
    BY FundingAssumption DEF Init, Retries
<1>4. BoundTypes
    BY FundingAssumption DEF Init, BoundTypes
<1>5. overlapped \in BOOLEAN
    BY DEF Init
<1> QED
    BY <1>1, <1>2, <1>3, <1>4, <1>5

LEMMA RequestStep == RequestTypes /\ [Next]_vars => RequestTypes'
<1> SUFFICES ASSUME RequestTypes, [Next]_vars PROVE RequestTypes'
    OBVIOUS
<1>1. withdrawal' \in [Investments -> {"idle", "read"}]
  <2>1. \/ UNCHANGED withdrawal
        \/ \E i \in Investments, w \in {"idle", "read"} : withdrawal' = [withdrawal EXCEPT ![i] = w]
    BY DEF Next, Job, Closing, vars, calls, CreateInvestment, ConfirmRead, ConfirmOpen,
           ConfirmCommit, ConfirmRollback, RequestCoolingOffCancel, WithdrawRead, WithdrawSave,
           ExpireLease, FundEscrow, HandleInvestmentFund, GetLease, SetLease, ReadInvestment,
           SubmitTransaction, TransferTradeTokens, ConfirmFunded, FinishFunded, AttemptThrows,
           FailInvestment, ReleaseLease, Settle, CrashJob, CloseRead, Clawback, CloseThrows,
           AbandonClosing, CommitCancel, RefundClosed, SaveClosed, SweepRead, SweepRefund
  <2> QED
    BY <2>1 DEF RequestTypes
<1>2. swept' \subseteq Investments
  <2>1. swept' \in {swept, Pending, {}}
    BY DEF Next, Job, Closing, vars, admin, CreateInvestment, ConfirmRead, ConfirmOpen,
           ConfirmCommit, ConfirmRollback, RequestCoolingOffCancel, WithdrawRead, WithdrawSave,
           ExpireLease, FundEscrow, HandleInvestmentFund, GetLease, SetLease, ReadInvestment,
           SubmitTransaction, TransferTradeTokens, ConfirmFunded, FinishFunded, AttemptThrows,
           FailInvestment, ReleaseLease, Settle, CrashJob, CloseRead, Clawback, CloseThrows,
           AbandonClosing, CommitCancel, RefundClosed, SaveClosed, SweepRead, SweepRefund
  <2> QED
    BY <2>1 DEF RequestTypes, Pending
<1>3. paid' \subseteq Investments
  <2>1. \/ paid' = paid
        \/ \E j \in Jobs : paid' = paid \cup {j[1]}
    BY DEF Next, Job, Closing, vars, chain, CreateInvestment, ConfirmRead, ConfirmOpen,
           ConfirmCommit, ConfirmRollback, RequestCoolingOffCancel, WithdrawRead, WithdrawSave,
           ExpireLease, FundEscrow, HandleInvestmentFund, GetLease, SetLease, ReadInvestment,
           SubmitTransaction, TransferTradeTokens, ConfirmFunded, FinishFunded, AttemptThrows,
           FailInvestment, ReleaseLease, Settle, CrashJob, CloseRead, Clawback, CloseThrows,
           AbandonClosing, CommitCancel, RefundClosed, SaveClosed, SweepRead, SweepRefund
  <2> QED
    BY <2>1 DEF RequestTypes, Jobs
<1> QED
    BY <1>1, <1>2, <1>3 DEF RequestTypes

LEMMA BoundStep == BoundTypes /\ [Next]_vars => BoundTypes'
<1> SUFFICES ASSUME BoundTypes, [Next]_vars PROVE BoundTypes'
    OBVIOUS
<1>1. /\ crashes' = crashes \/ (crashes < MaxCrashes /\ crashes' = crashes + 1)
      /\ failures' = failures \/ (failures < MaxFailures /\ failures' = failures + 1)
      /\ expiries' = expiries \/ (expiries < MaxExpiries /\ expiries' = expiries + 1)
    BY DEF Next, Job, Closing, vars, bounds, CreateInvestment, ConfirmRead, ConfirmOpen,
           ConfirmCommit, ConfirmRollback, RequestCoolingOffCancel, WithdrawRead, WithdrawSave,
           ExpireLease, FundEscrow, HandleInvestmentFund, GetLease, SetLease, ReadInvestment,
           SubmitTransaction, TransferTradeTokens, ConfirmFunded, FinishFunded, AttemptThrows,
           FailInvestment, ReleaseLease, Settle, CrashJob, CloseRead, Clawback, CloseThrows,
           AbandonClosing, CommitCancel, RefundClosed, SaveClosed, SweepRead, SweepRefund, Fault
<1>2. ASSUME NEW n \in Nat, NEW k \in 0..n, NEW l, l = k \/ (k < n /\ l = k + 1)
      PROVE  l \in 0..n
    BY <1>2
<1>3. MaxCrashes \in Nat /\ MaxFailures \in Nat /\ MaxExpiries \in Nat
    BY FundingAssumption
<1> QED
    BY <1>1, <1>2, <1>3 DEF BoundTypes

LEMMA OverlapStep == overlapped \in BOOLEAN /\ [Next]_vars => (overlapped \in BOOLEAN)'
<1> SUFFICES ASSUME overlapped \in BOOLEAN, [Next]_vars PROVE overlapped' \in BOOLEAN
    OBVIOUS
<1>1. \/ overlapped' = overlapped
      \/ overlapped' = (overlapped \/ \E n \in Investments : Locked(n))
    BY Zenon DEF Next, Job, Closing, vars, CreateInvestment, ConfirmRead, ConfirmOpen,
           ConfirmCommit, ConfirmRollback, RequestCoolingOffCancel, WithdrawRead, WithdrawSave,
           ExpireLease, FundEscrow, HandleInvestmentFund, GetLease, SetLease, ReadInvestment,
           SubmitTransaction, TransferTradeTokens, ConfirmFunded, FinishFunded, AttemptThrows,
           FailInvestment, ReleaseLease, Settle, CrashJob, CloseRead, Clawback, CloseThrows,
           AbandonClosing, CommitCancel, RefundClosed, SaveClosed, SweepRead, SweepRefund
<1> QED
    BY <1>1, Zenon

LEMMA DealStep == DealTypes /\ [Next]_vars => DealTypes'
<1> SUFFICES ASSUME DealTypes, [Next]_vars PROVE DealTypes'
    OBVIOUS
<1>1. ASSUME UNCHANGED <<dealStatus, totalInvested, call, closing>> PROVE DealTypes'
    BY <1>1 DEF DealTypes
<1>2. Confirmed \in SUBSET Investments /\ Existing \in SUBSET Investments
    BY DEF Confirmed, Existing
<1>3. ASSUME NEW i \in Investments, ConfirmRead(i) \/ ConfirmOpen(i) \/ ConfirmCommit(i)
                                    \/ ConfirmRollback(i)
      PROVE DealTypes'
  <2>1. call[i] \in Confirmations
    BY DEF DealTypes
  <2>2. SeenBy(i) \in SUBSET Investments
    BY <1>2 DEF SeenBy
  <2>3. PICK c \in Confirmations : call' = [call EXCEPT ![i] = c]
    <3>1. CASE ConfirmRead(i)
      <4>1. call' = [call EXCEPT ![i] = [call[i] EXCEPT !.at = "checked"]]
        BY <3>1 DEF ConfirmRead
      <4> QED BY <2>1, <4>1, RecordsOK
    <3>2. CASE ConfirmOpen(i)
      BY <2>2, <3>2, RecordsOK DEF ConfirmOpen
    <3>3. CASE ConfirmCommit(i) \/ ConfirmRollback(i)
      BY <3>3, RecordsOK DEF ConfirmCommit, ConfirmRollback
    <3> QED BY <1>3, <3>1, <3>2, <3>3
  <2>4. call' \in [Investments -> Confirmations]
    BY <2>3 DEF DealTypes
  <2>5. closing' = closing
    BY <1>3 DEF ConfirmRead, ConfirmOpen, ConfirmCommit, ConfirmRollback, admin
  <2>6. call[i].sum \in Totals
    BY <2>1 DEF Confirmations
  <2>7. totalInvested' \in {totalInvested, call[i].sum} /\ dealStatus' \in {dealStatus, "funded"}
    BY <1>3 DEF ConfirmRead, ConfirmOpen, ConfirmCommit, ConfirmRollback, StatusAt, deal
  <2> QED
    BY <2>4, <2>5, <2>6, <2>7 DEF DealTypes, Deals
<1>4. ASSUME NEW o \in Closers, CloseRead(o) \/ Closing(o)
      PROVE DealTypes'
  <2>1. closing[o] \in Closings /\ closing[o].total \in Totals
    BY DEF DealTypes, Closings
  <2>2. PICK c \in Closings : closing' = [closing EXCEPT ![o] = c]
    <3>1. CASE CloseRead(o)
      BY <1>2, <3>1, RecordsOK DEF CloseRead, DealTypes
    <3>2. CASE Clawback(o)
      <4>1. closing' = [closing EXCEPT ![o] = [closing[o] EXCEPT !.at = "refund"]]
        BY <3>2 DEF Clawback
      <4> QED BY <2>1, <4>1, RecordsOK
    <3>3. CASE o = "close" /\ RefundClosed
      <4>1. closing' = [closing EXCEPT ![o] = [closing[o] EXCEPT !.at = "save"]]
        BY <3>3 DEF RefundClosed
      <4> QED BY <2>1, <4>1, RecordsOK
    <3>4. CASE CloseThrows(o) \/ AbandonClosing(o) \/ (o = "cancel" /\ CommitCancel)
               \/ (o = "close" /\ SaveClosed)
      BY <3>4, RecordsOK DEF CloseThrows, AbandonClosing, CommitCancel, SaveClosed, SaveDeal
    <3> QED BY <1>4, <3>1, <3>2, <3>3, <3>4 DEF Closing
  <2>3. closing' \in [Closers -> Closings]
    BY <2>2 DEF DealTypes
  <2>4. /\ call' = call
        /\ totalInvested' \in {totalInvested, closing[o].total}
        /\ dealStatus' \in {dealStatus, "canceled", "expired"}
    BY <1>4 DEF CloseRead, Closing, Clawback, CloseThrows, AbandonClosing, CommitCancel,
                RefundClosed, SaveClosed, SaveDeal, calls, deal
  <2> QED
    BY <2>1, <2>3, <2>4 DEF DealTypes, Deals
<1>5. ASSUME NEW i \in Investments, CreateInvestment(i) \/ RequestCoolingOffCancel(i)
                \/ WithdrawRead(i) \/ WithdrawSave(i) \/ ExpireLease(i)
      PROVE DealTypes'
    BY <1>1, <1>5 DEF CreateInvestment, RequestCoolingOffCancel, WithdrawRead, WithdrawSave,
                      ExpireLease, deal, calls, admin
<1>6. ASSUME NEW j \in Jobs, FundEscrow(j) \/ HandleInvestmentFund(j) \/ Job(j) \/ CrashJob(j)
      PROVE DealTypes'
    BY <1>1, <1>6 DEF FundEscrow, HandleInvestmentFund, Job, CrashJob, GetLease, SetLease,
           ReadInvestment, SubmitTransaction, TransferTradeTokens, ConfirmFunded, FinishFunded,
           AttemptThrows, FailInvestment, ReleaseLease, Settle, deal, calls, admin
<1>7. ASSUME SweepRead \/ SweepRefund \/ UNCHANGED vars PROVE DealTypes'
    BY <1>1, <1>7 DEF SweepRead, SweepRefund, vars, deal, calls, admin
<1> QED
    BY <1>3, <1>4, <1>5, <1>6, <1>7 DEF Next

\* A failed attempt is counted only while one is left.
LEMMA RetriesStep == Retries /\ FundTypes /\ [Next]_vars => Retries'
<1> SUFFICES ASSUME Retries, FundTypes, [Next]_vars PROVE Retries'
    OBVIOUS
<1>1. MaxAttempts \in Nat \ {0}
    BY FundingAssumption
<1>2. ASSUME UNCHANGED jobs PROVE Retries'
    BY <1>2 DEF Retries, jobs
<1>3. ASSUME NEW j \in Jobs, NEW s, UNCHANGED attempts, job' = [job EXCEPT ![j] = s],
             s \in {"set", "read", "submit", "transfer", "confirm"} =>
                job[j] \in {"get", "set", "read", "submit", "transfer", "confirm"},
             s # "get"
      PROVE  Retries'
  <2>1. job \in [Jobs -> AllSteps]
    BY DEF FundTypes
  <2> QED
    BY <1>3, <2>1 DEF Retries
<1>4. ASSUME NEW j \in Jobs, FundEscrow(j) PROVE Retries'
    BY <1>3, <1>4 DEF FundEscrow
<1>5. ASSUME NEW j \in Jobs, HandleInvestmentFund(j) PROVE Retries'
  <2>1. job \in [Jobs -> AllSteps]
    BY DEF FundTypes
  <2> QED
    BY <1>1, <1>5, <2>1 DEF HandleInvestmentFund, Retries
<1>6. ASSUME NEW j \in Jobs, AttemptThrows(j) PROVE Retries'
  <2>1. job \in [Jobs -> AllSteps]
    BY DEF FundTypes
  <2>2. attempts[j] \in 0..MaxAttempts /\ attempts[j] < MaxAttempts
    BY <1>6 DEF AttemptThrows, Retries
  <2>3. job' = [job EXCEPT ![j] = IF attempts[j] + 1 < MaxAttempts THEN "submit" ELSE "fail"]
    BY <1>6 DEF AttemptThrows, NextAttempt
  <2>4. attempts' = [attempts EXCEPT ![j] = attempts[j] + 1] /\ attempts[j] + 1 \in 0..MaxAttempts
    BY <1>1, <1>6, <2>2 DEF AttemptThrows, NextAttempt
  <2>5. CASE attempts[j] + 1 < MaxAttempts
    BY <2>1, <2>3, <2>4, <2>5 DEF Retries
  <2>6. CASE ~(attempts[j] + 1 < MaxAttempts)
    <3>1. job' = [job EXCEPT ![j] = "fail"]
      BY <2>3, <2>6
    <3> QED
      BY <2>1, <2>4, <3>1 DEF Retries
  <2> QED
    BY <2>5, <2>6
<1>7. ASSUME NEW j \in Jobs, GetLease(j) \/ SetLease(j) \/ ReadInvestment(j)
                \/ SubmitTransaction(j) \/ TransferTradeTokens(j) PROVE Retries'
  <2>1. PICK s \in {"set", "read", "submit", "transfer", "confirm", "ack"} :
           job' = [job EXCEPT ![j] = s] /\ UNCHANGED attempts
    BY <1>7 DEF GetLease, SetLease, ReadInvestment, SubmitTransaction, TransferTradeTokens, Go
  <2>2. job[j] \in {"get", "set", "read", "submit", "transfer"}
    BY <1>7 DEF GetLease, SetLease, ReadInvestment, SubmitTransaction, TransferTradeTokens
  <2> QED
    BY <1>3, <2>1, <2>2
<1>8. ASSUME NEW j \in Jobs, ConfirmFunded(j) \/ FinishFunded(j) \/ FailInvestment(j)
                \/ ReleaseLease(j) \/ Settle(j) \/ CrashJob(j) PROVE Retries'
  <2>1. PICK s \in {"done", "ack", "get again", "del", "nack", "gone", "dlq", "ready"} :
           job' = [job EXCEPT ![j] = s] /\ UNCHANGED attempts
    BY <1>8 DEF ConfirmFunded, FinishFunded, FailInvestment, ReleaseLease, Settle, CrashJob, Go
  <2> QED
    BY <1>3, <2>1
<1>9. ASSUME NEW i \in Investments,
             \/ CreateInvestment(i) \/ ConfirmRead(i) \/ ConfirmOpen(i) \/ ConfirmCommit(i)
             \/ ConfirmRollback(i) \/ RequestCoolingOffCancel(i) \/ WithdrawRead(i)
             \/ WithdrawSave(i) \/ ExpireLease(i)
      PROVE Retries'
    BY <1>2, <1>9 DEF CreateInvestment, ConfirmRead, ConfirmOpen, ConfirmCommit,
           ConfirmRollback, RequestCoolingOffCancel, WithdrawRead, WithdrawSave, ExpireLease
<1>10. ASSUME NEW o \in Closers, CloseRead(o) \/ Closing(o) PROVE Retries'
    BY <1>2, <1>10 DEF CloseRead, Closing, Clawback, CloseThrows, AbandonClosing,
           CommitCancel, RefundClosed, SaveClosed
<1>11. ASSUME SweepRead \/ SweepRefund \/ UNCHANGED vars PROVE Retries'
    BY <1>2, <1>11 DEF SweepRead, SweepRefund, vars
<1> QED
    BY <1>4, <1>5, <1>6, <1>7, <1>8, <1>9, <1>10, <1>11 DEF Next, Job

\* Every variable of the funding keeps its type: no stale read or save makes
\* total_invested larger than all investments together, and no job tries more
\* often than MaxAttempts.
THEOREM TypeCorrect == Spec => []TypeOK
<1>1. DealTypes /\ RequestTypes /\ BoundTypes /\ overlapped \in BOOLEAN /\ Retries /\ FundTypes
         => TypeOK
  <2> SUFFICES ASSUME DealTypes, RequestTypes, BoundTypes, overlapped \in BOOLEAN,
                      Retries, FundTypes
               PROVE  TypeOK
    OBVIOUS
  <2>1. /\ LeaseType
        /\ inv \in [Investments -> Statuses]
        /\ tokens \in [Investments -> Nat]
    BY FundingAssumption DEF FundTypes, LeaseType
  <2>2. job \in [Jobs -> JobSteps \cup {"unsent", "ready", "gone", "dlq"}]
    BY DEF FundTypes, AllSteps
  <2>3. /\ dealStatus \in {"open", "funded", "canceled", "expired"}
        /\ totalInvested \in 0..Sum(Investments)
        /\ call \in [Investments -> [at : {"idle", "checked", "open"},
                                     sum : 0..Sum(Investments)]]
        /\ closing \in [Closers -> [at : {"idle", "clawback", "refund", "save"},
                                    refunds : SUBSET Investments,
                                    known : SUBSET Investments,
                                    total : 0..Sum(Investments)]]
    BY Zenon DEF DealTypes, Deals, Totals, Confirmations, Closings
  <2> QED
    BY <2>1, <2>2, <2>3, Zenon DEF TypeOK, RequestTypes, BoundTypes, Retries
<1>2. FundInv => FundTypes
    BY DEF FundInv
<1> QED
    BY <1>1, <1>2, TypesInit, DealStep, RequestStep, BoundStep, OverlapStep,
       RetriesStep, FundInvHolds, PTL DEF Spec
=============================================================================
