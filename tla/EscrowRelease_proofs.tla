------------------------ MODULE EscrowRelease_proofs ------------------------
(***************************************************************************)
(* Proofs about EscrowRelease, for every set of messages and requests and  *)
(* every value of the bounds: types, exclusion by the two leases, the      *)
(* books of a completed deal, payouts beyond the first, and deals that     *)
(* nobody looks after.                                                     *)
(***************************************************************************)
EXTENDS EscrowRelease, FiniteSetTheorems, TLAPS

\* There are two keys.
LEMMA KeyFacts == Keys = {DealLease, PayLease} /\ DealLease # PayLease
BY ReleaseAssumption DEF DealLease, PayLease

\* What the bounds are.
BoundFacts ==
    /\ MaxAttempts \in Nat \ {0} /\ EscrowFunds \in Nat /\ MaxCrashes \in Nat
    /\ MaxFailures \in Nat /\ MaxExpiries \in Nat /\ MaxReplays \in Nat

\* The assumptions say so.
LEMMA Bounds == BoundFacts
BY ReleaseAssumption DEF BoundFacts

\* TypeOK in three parts, each with a proof of its own.
BrokerType == /\ lease \in [Keys -> {"none", "processing", "done"}]
              /\ at \in [Msgs -> JobSteps \cup {"unsent", "ready", "dlq", "gone"}]
              /\ deaths \in [Msgs -> 0..MaxAttempts]
DbType ==
    /\ deal \in {"payable", "invalid", "uninvested"}
    /\ status \in {"funded", "delivered", "completed"}
    /\ rows \in {"none", "confirmed", "failed"}
    /\ request \in [Requests -> {"new", "checked", "open", "over"}]
    /\ milestones \in Nat
CountType ==
    /\ paid \in 0..EscrowFunds
    /\ crashes \in 0..MaxCrashes /\ failures \in 0..MaxFailures
    /\ expiries \in [Keys -> 0..MaxExpiries] /\ replays \in 0..MaxReplays
Types == BrokerType /\ DbType /\ CountType

\* The initial states have the right types.
LEMMA InitTypes == Init => Types
<1> USE KeyFacts, Bounds DEF BoundFacts
<1> SUFFICES ASSUME Init PROVE Types
  OBVIOUS
<1>1. lease \in [Keys -> {"none", "processing", "done"}]
  BY DEF Init, LeaseInit
<1>2. at \in [Msgs -> JobSteps \cup {"unsent", "ready", "dlq", "gone"}]
  BY DEF Init
<1>3. deaths \in [Msgs -> 0..MaxAttempts]
  BY DEF Init
<1>4. DbType
  BY ReleaseAssumption DEF Init, DbType
<1>5. CountType
  BY DEF Init, CountType
<1> QED BY <1>1, <1>2, <1>3, <1>4, <1>5 DEF BrokerType, Types

\* One more death keeps the count within its bound.
LEMMA OneMoreType ==
  ASSUME NEW n \in 0..MaxAttempts
  PROVE  OneMore(n) \in 0..MaxAttempts
BY Bounds DEF BoundFacts, OneMore

\* A requeue keeps the types of the broker.
LEMMA RequeueType ==
  ASSUME BrokerType, NEW m \in Msgs, Requeue(m), UNCHANGED lease
  PROVE  BrokerType'
<1>1. deaths' \in [Msgs -> 0..MaxAttempts]
  <2>1. OneMore(deaths[m]) \in 0..MaxAttempts
    BY OneMoreType DEF BrokerType
  <2> QED BY <2>1 DEF Requeue, BrokerType
<1> QED BY <1>1 DEF Requeue, BrokerType, JobSteps, DealSteps, PaySteps

\* Dead-lettering keeps the types of the broker.
LEMMA DeadLetterType ==
  ASSUME BrokerType, NEW m \in Msgs, DeadLetter(m), UNCHANGED lease
  PROVE  BrokerType'
<1>1. deaths' \in [Msgs -> 0..MaxAttempts]
  <2>1. OneMore(deaths[m]) \in 0..MaxAttempts
    BY OneMoreType DEF BrokerType
  <2> QED BY <2>1 DEF DeadLetter, BrokerType
<1> QED BY <1>1 DEF DeadLetter, BrokerType, JobSteps, DealSteps, PaySteps

\* Every step keeps the types of keys and messages.
LEMMA BrokerNext ==
  BrokerType /\ [Next]_vars => BrokerType'
<1> SUFFICES ASSUME BrokerType, [Next]_vars PROVE BrokerType'
  OBVIOUS
<1> USE Bounds, ReleaseAssumption DEF BoundFacts, BrokerType, JobSteps,
        DealSteps, PaySteps, broker
<1>1. ASSUME NEW m \in Requests, CheckMilestone(m) PROVE BrokerType'
  BY <1>1 DEF CheckMilestone
<1>2. ASSUME NEW m \in Requests, CommitMilestone(m) PROVE BrokerType'
  BY <1>2 DEF CommitMilestone, broker, bounds
<1>3. ASSUME NEW m \in Requests, RollbackMilestone(m) PROVE BrokerType'
  BY <1>3 DEF RollbackMilestone, Fault
<1>4. ASSUME NEW m \in Requests, NEW sent \in BOOLEAN, UpdateMilestone(m, sent)
      PROVE  BrokerType'
  BY <1>4 DEF UpdateMilestone
<1>5. ASSUME NEW m \in Msgs, RetryFailedPayment(m) PROVE BrokerType'
  BY <1>5 DEF RetryFailedPayment
<1>6. ASSUME NEW m \in Msgs, HandleDealDelivered(m) PROVE BrokerType'
  <2>1. CASE DeadLetter(m)
    BY <1>6, <2>1, DeadLetterType DEF HandleDealDelivered
  <2>2. CASE Go(m, "get deal")
    BY <1>6, <2>2 DEF HandleDealDelivered, Go
  <2> QED BY <1>6, <2>1, <2>2 DEF HandleDealDelivered, ParsePayload
<1>7. ASSUME NEW m \in Msgs, HandleWhileStopping(m) PROVE BrokerType'
  BY <1>7, RequeueType DEF HandleWhileStopping
<1>8. ASSUME NEW m \in Msgs, GetDealLease(m) PROVE BrokerType'
  BY <1>8 DEF GetDealLease, GetFree, Refused, Forget, GetTaken, Go
<1>9. ASSUME NEW m \in Msgs, SetDealLease(m) PROVE BrokerType'
  BY <1>9 DEF SetDealLease, SetNX, Refused, Forget, GetTaken, Go
<1>10. ASSUME NEW m \in Msgs, ReadDeal(m) PROVE BrokerType'
  BY <1>10 DEF ReadDeal, Forget, Go
<1>11. ASSUME NEW m \in Msgs, GetPayLease(m) PROVE BrokerType'
  BY <1>11 DEF GetPayLease, GetFree, Refused, Forget, GetTaken, Go
<1>12. ASSUME NEW m \in Msgs, SetPayLease(m) PROVE BrokerType'
  BY <1>12 DEF SetPayLease, SetNX, Refused, Forget, GetTaken, Go
<1>13. ASSUME NEW m \in Msgs, ReleaseEscrow(m) PROVE BrokerType'
  BY <1>13 DEF ReleaseEscrow, Go
<1>14. ASSUME NEW m \in Msgs, ReleaseRefused(m) PROVE BrokerType'
  BY <1>14 DEF ReleaseRefused, Go
<1>15. ASSUME NEW m \in Msgs, ReleaseThrows(m) PROVE BrokerType'
  BY <1>15 DEF ReleaseThrows, Fault, Go
<1>16. ASSUME NEW m \in Msgs, CommitPayout(m) PROVE BrokerType'
  BY <1>16 DEF CommitPayout, Go
<1>17. ASSUME NEW m \in Msgs, RollbackPayout(m) PROVE BrokerType'
  BY <1>17 DEF RollbackPayout, Fault, Go
<1>18. ASSUME NEW m \in Msgs, HandleEscrowFailure(m) PROVE BrokerType'
  BY <1>18 DEF HandleEscrowFailure, Fault, Go
<1>19. ASSUME NEW m \in Msgs, MarkPayDone(m) PROVE BrokerType'
  BY <1>19 DEF MarkPayDone, MarkDone, Go
<1>20. ASSUME NEW m \in Msgs, ReleasePayLease(m) PROVE BrokerType'
  BY <1>20 DEF ReleasePayLease, GetProcessing, GetOther, Del, Go
<1>21. ASSUME NEW m \in Msgs, MarkDealDone(m) PROVE BrokerType'
  BY <1>21 DEF MarkDealDone, MarkDone, Go
<1>22. ASSUME NEW m \in Msgs, Ack(m) PROVE BrokerType'
  BY <1>22 DEF Ack, Go
<1>23. ASSUME NEW m \in Msgs, ReleaseDealLease(m) PROVE BrokerType'
  BY <1>23 DEF ReleaseDealLease, GetProcessing, GetOther, Del, Go
<1>24. ASSUME NEW m \in Msgs, Nack(m) PROVE BrokerType'
  BY <1>24, RequeueType, DeadLetterType DEF Nack
<1>25. ASSUME NEW m \in Msgs, Crash(m) PROVE BrokerType'
  BY <1>25 DEF Crash, Go
<1>26. ASSUME NEW m \in Msgs, HandleDeadLetter(m) PROVE BrokerType'
  BY <1>26 DEF HandleDeadLetter, Go
<1>27. ASSUME NEW m \in Msgs, ReplayMessage(m) PROVE BrokerType'
  BY <1>27 DEF ReplayMessage, Go
<1>28. ASSUME NEW k \in Keys, ExpireUnused(k) PROVE BrokerType'
  BY <1>28 DEF ExpireUnused, Expire, Del
<1>29. ASSUME NEW k \in Keys, ExpireInUse(k) PROVE BrokerType'
  BY <1>29 DEF ExpireInUse, Expire, Del
<1>30. CASE UNCHANGED vars
  BY <1>30 DEF vars
<1> QED
  BY <1>1, <1>2, <1>3, <1>4, <1>5, <1>6, <1>7, <1>8, <1>9, <1>10, <1>11, <1>12,
     <1>13, <1>14, <1>15, <1>16, <1>17, <1>18, <1>19, <1>20, <1>21, <1>22,
     <1>23, <1>24, <1>25, <1>26, <1>27, <1>28, <1>29, <1>30 DEF Next, Job

\* Every step keeps the types of the database.
LEMMA DbNext ==
  DbType /\ [Next]_vars => DbType'
<1> SUFFICES ASSUME DbType, [Next]_vars PROVE DbType'
  OBVIOUS
<1> USE ReleaseAssumption DEF DbType, db
<1>1. ASSUME NEW m \in Requests, CheckMilestone(m) PROVE DbType'
  BY <1>1 DEF CheckMilestone
<1>2. ASSUME NEW m \in Requests, CommitMilestone(m) PROVE DbType'
  BY <1>2 DEF CommitMilestone, broker, bounds
<1>3. ASSUME NEW m \in Requests, RollbackMilestone(m) PROVE DbType'
  BY <1>3 DEF RollbackMilestone, Fault
<1>4. ASSUME NEW m \in Requests, NEW sent \in BOOLEAN, UpdateMilestone(m, sent)
      PROVE  DbType'
  BY <1>4 DEF UpdateMilestone
<1>5. ASSUME NEW m \in Msgs, RetryFailedPayment(m) PROVE DbType'
  BY <1>5 DEF RetryFailedPayment
<1>6. ASSUME NEW m \in Msgs, HandleDealDelivered(m) PROVE DbType'
  BY <1>6 DEF HandleDealDelivered, ParsePayload, DeadLetter, Go, OneMore
<1>7. ASSUME NEW m \in Msgs, HandleWhileStopping(m) PROVE DbType'
  BY <1>7 DEF HandleWhileStopping, Requeue, OneMore
<1>8. ASSUME NEW m \in Msgs, GetDealLease(m) PROVE DbType'
  BY <1>8 DEF GetDealLease, GetFree, Refused, Forget, GetTaken, Go
<1>9. ASSUME NEW m \in Msgs, SetDealLease(m) PROVE DbType'
  BY <1>9 DEF SetDealLease, SetNX, Refused, Forget, GetTaken, Go
<1>10. ASSUME NEW m \in Msgs, ReadDeal(m) PROVE DbType'
  BY <1>10 DEF ReadDeal, Forget, Go
<1>11. ASSUME NEW m \in Msgs, GetPayLease(m) PROVE DbType'
  BY <1>11 DEF GetPayLease, GetFree, Refused, Forget, GetTaken, Go
<1>12. ASSUME NEW m \in Msgs, SetPayLease(m) PROVE DbType'
  BY <1>12 DEF SetPayLease, SetNX, Refused, Forget, GetTaken, Go
<1>13. ASSUME NEW m \in Msgs, ReleaseEscrow(m) PROVE DbType'
  BY <1>13 DEF ReleaseEscrow, Go
<1>14. ASSUME NEW m \in Msgs, ReleaseRefused(m) PROVE DbType'
  BY <1>14 DEF ReleaseRefused, Go
<1>15. ASSUME NEW m \in Msgs, ReleaseThrows(m) PROVE DbType'
  BY <1>15 DEF ReleaseThrows, Fault, Go
<1>16. ASSUME NEW m \in Msgs, CommitPayout(m) PROVE DbType'
  BY <1>16 DEF CommitPayout, Go
<1>17. ASSUME NEW m \in Msgs, RollbackPayout(m) PROVE DbType'
  BY <1>17 DEF RollbackPayout, Fault, Go
<1>18. ASSUME NEW m \in Msgs, HandleEscrowFailure(m) PROVE DbType'
  BY <1>18 DEF HandleEscrowFailure, Fault, Go
<1>19. ASSUME NEW m \in Msgs, MarkPayDone(m) PROVE DbType'
  BY <1>19 DEF MarkPayDone, MarkDone, Go
<1>20. ASSUME NEW m \in Msgs, ReleasePayLease(m) PROVE DbType'
  BY <1>20 DEF ReleasePayLease, GetProcessing, GetOther, Del, Go
<1>21. ASSUME NEW m \in Msgs, MarkDealDone(m) PROVE DbType'
  BY <1>21 DEF MarkDealDone, MarkDone, Go
<1>22. ASSUME NEW m \in Msgs, Ack(m) PROVE DbType'
  BY <1>22 DEF Ack, Go
<1>23. ASSUME NEW m \in Msgs, ReleaseDealLease(m) PROVE DbType'
  BY <1>23 DEF ReleaseDealLease, GetProcessing, GetOther, Del, Go
<1>24. ASSUME NEW m \in Msgs, Nack(m) PROVE DbType'
  BY <1>24 DEF Nack, DeadLetter, Requeue, OneMore
<1>25. ASSUME NEW m \in Msgs, Crash(m) PROVE DbType'
  BY <1>25 DEF Crash, Go
<1>26. ASSUME NEW m \in Msgs, HandleDeadLetter(m) PROVE DbType'
  BY <1>26 DEF HandleDeadLetter, Go
<1>27. ASSUME NEW m \in Msgs, ReplayMessage(m) PROVE DbType'
  BY <1>27 DEF ReplayMessage, Go
<1>28. ASSUME NEW k \in Keys, ExpireUnused(k) PROVE DbType'
  BY <1>28 DEF ExpireUnused, Expire, Del
<1>29. ASSUME NEW k \in Keys, ExpireInUse(k) PROVE DbType'
  BY <1>29 DEF ExpireInUse, Expire, Del
<1>30. CASE UNCHANGED vars
  BY <1>30 DEF vars
<1> QED
  BY <1>1, <1>2, <1>3, <1>4, <1>5, <1>6, <1>7, <1>8, <1>9, <1>10, <1>11, <1>12,
     <1>13, <1>14, <1>15, <1>16, <1>17, <1>18, <1>19, <1>20, <1>21, <1>22,
     <1>23, <1>24, <1>25, <1>26, <1>27, <1>28, <1>29, <1>30 DEF Next, Job

\* Every step keeps the payments and the bounded counters within their bounds.
LEMMA CountNext ==
  CountType /\ [Next]_vars => CountType'
<1> SUFFICES ASSUME CountType, [Next]_vars PROVE CountType'
  OBVIOUS
<1> USE Bounds DEF BoundFacts, CountType, bounds
<1>1. ASSUME NEW m \in Requests, CheckMilestone(m) PROVE CountType'
  BY <1>1 DEF CheckMilestone
<1>2. ASSUME NEW m \in Requests, CommitMilestone(m) PROVE CountType'
  BY <1>2 DEF CommitMilestone, broker, bounds
<1>3. ASSUME NEW m \in Requests, RollbackMilestone(m) PROVE CountType'
  BY <1>3 DEF RollbackMilestone, Fault
<1>4. ASSUME NEW m \in Requests, NEW sent \in BOOLEAN, UpdateMilestone(m, sent)
      PROVE  CountType'
  BY <1>4 DEF UpdateMilestone
<1>5. ASSUME NEW m \in Msgs, RetryFailedPayment(m) PROVE CountType'
  BY <1>5 DEF RetryFailedPayment
<1>6. ASSUME NEW m \in Msgs, HandleDealDelivered(m) PROVE CountType'
  BY <1>6 DEF HandleDealDelivered, ParsePayload, DeadLetter, Go, OneMore
<1>7. ASSUME NEW m \in Msgs, HandleWhileStopping(m) PROVE CountType'
  BY <1>7 DEF HandleWhileStopping, Requeue, OneMore
<1>8. ASSUME NEW m \in Msgs, GetDealLease(m) PROVE CountType'
  BY <1>8 DEF GetDealLease, GetFree, Refused, Forget, GetTaken, Go
<1>9. ASSUME NEW m \in Msgs, SetDealLease(m) PROVE CountType'
  BY <1>9 DEF SetDealLease, SetNX, Refused, Forget, GetTaken, Go
<1>10. ASSUME NEW m \in Msgs, ReadDeal(m) PROVE CountType'
  BY <1>10 DEF ReadDeal, Forget, Go
<1>11. ASSUME NEW m \in Msgs, GetPayLease(m) PROVE CountType'
  BY <1>11 DEF GetPayLease, GetFree, Refused, Forget, GetTaken, Go
<1>12. ASSUME NEW m \in Msgs, SetPayLease(m) PROVE CountType'
  BY <1>12 DEF SetPayLease, SetNX, Refused, Forget, GetTaken, Go
<1>13. ASSUME NEW m \in Msgs, ReleaseEscrow(m) PROVE CountType'
  BY <1>13 DEF ReleaseEscrow, Go
<1>14. ASSUME NEW m \in Msgs, ReleaseRefused(m) PROVE CountType'
  BY <1>14 DEF ReleaseRefused, Go
<1>15. ASSUME NEW m \in Msgs, ReleaseThrows(m) PROVE CountType'
  BY <1>15 DEF ReleaseThrows, Fault, Go
<1>16. ASSUME NEW m \in Msgs, CommitPayout(m) PROVE CountType'
  BY <1>16 DEF CommitPayout, Go
<1>17. ASSUME NEW m \in Msgs, RollbackPayout(m) PROVE CountType'
  BY <1>17 DEF RollbackPayout, Fault, Go
<1>18. ASSUME NEW m \in Msgs, HandleEscrowFailure(m) PROVE CountType'
  <2>1. paid' = paid
    BY <1>18 DEF HandleEscrowFailure
  <2>2. CASE UNCHANGED bounds
    BY <2>1, <2>2
  <2>3. CASE Fault
    BY <2>1, <2>3 DEF Fault
  <2> QED BY <1>18, <2>2, <2>3 DEF HandleEscrowFailure
<1>19. ASSUME NEW m \in Msgs, MarkPayDone(m) PROVE CountType'
  BY <1>19 DEF MarkPayDone, MarkDone, Go
<1>20. ASSUME NEW m \in Msgs, ReleasePayLease(m) PROVE CountType'
  BY <1>20 DEF ReleasePayLease, GetProcessing, GetOther, Del, Go
<1>21. ASSUME NEW m \in Msgs, MarkDealDone(m) PROVE CountType'
  BY <1>21 DEF MarkDealDone, MarkDone, Go
<1>22. ASSUME NEW m \in Msgs, Ack(m) PROVE CountType'
  BY <1>22 DEF Ack, Go
<1>23. ASSUME NEW m \in Msgs, ReleaseDealLease(m) PROVE CountType'
  BY <1>23 DEF ReleaseDealLease, GetProcessing, GetOther, Del, Go
<1>24. ASSUME NEW m \in Msgs, Nack(m) PROVE CountType'
  BY <1>24 DEF Nack, DeadLetter, Requeue, OneMore
<1>25. ASSUME NEW m \in Msgs, Crash(m) PROVE CountType'
  BY <1>25 DEF Crash, Go
<1>26. ASSUME NEW m \in Msgs, HandleDeadLetter(m) PROVE CountType'
  BY <1>26 DEF HandleDeadLetter, Go
<1>27. ASSUME NEW m \in Msgs, ReplayMessage(m) PROVE CountType'
  BY <1>27 DEF ReplayMessage, Go
<1>28. ASSUME NEW k \in Keys, ExpireUnused(k) PROVE CountType'
  BY <1>28 DEF ExpireUnused, Expire, Del
<1>29. ASSUME NEW k \in Keys, ExpireInUse(k) PROVE CountType'
  BY <1>29 DEF ExpireInUse, Expire, Del
<1>30. CASE UNCHANGED vars
  BY <1>30 DEF vars
<1> QED
  BY <1>1, <1>2, <1>3, <1>4, <1>5, <1>6, <1>7, <1>8, <1>9, <1>10, <1>11, <1>12,
     <1>13, <1>14, <1>15, <1>16, <1>17, <1>18, <1>19, <1>20, <1>21, <1>22,
     <1>23, <1>24, <1>25, <1>26, <1>27, <1>28, <1>29, <1>30 DEF Next, Job

\* Exclusive(k): as long as key k does not run out under a live job, at most one
\* job is between winning it and giving it up, and the key says so.
Exclusive(k) ==
    expiries[k] = 0 =>
        \A m \in Msgs : at[m] \in HolderSteps(k) =>
            /\ lease[k] = "processing"
            /\ \A n \in Msgs : at[n] \in HolderSteps(k) => n = m

\* What a step of message m from await a to await b does to key k: it keeps the
\* key and does not begin to hold it, wins the key, or gives it up.
LeaseUse(a, b, k) ==
    \/ lease'[k] = lease[k] /\ (a \in HolderSteps(k) \/ b \notin HolderSteps(k))
    \/ lease[k] = "none" /\ lease'[k] = "processing"
    \/ a \in HolderSteps(k) /\ b \notin HolderSteps(k)

\* The step of a message moves that message and uses each key in such a way.
Step(m) == /\ at' = [at EXCEPT ![m] = at'[m]]
           /\ \A k \in Keys : LeaseUse(at[m], at'[m], k)
           /\ expiries' = expiries

\* Such a step keeps the key exclusive.
LEMMA StepKeepsExclusive ==
  ASSUME BrokerType, NEW k \in Keys, Exclusive(k), NEW m \in Msgs, Step(m)
  PROVE  Exclusive(k)'
<1> DEFINE S == HolderSteps(k)
<1>1. HolderSteps(k)' = S
  BY DEF HolderSteps
<1>2. /\ at \in [Msgs -> JobSteps \cup {"unsent", "ready", "dlq", "gone"}]
      /\ at' = [at EXCEPT ![m] = at'[m]] /\ expiries' = expiries
      /\ \/ lease'[k] = lease[k] /\ (at[m] \in S \/ at'[m] \notin S)
         \/ lease[k] = "none" /\ lease'[k] = "processing"
         \/ at[m] \in S /\ at'[m] \notin S
  BY DEF BrokerType, Step, LeaseUse
<1>3. expiries[k] = 0 => \A n \in Msgs : at[n] \in S =>
            /\ lease[k] = "processing"
            /\ \A o \in Msgs : at[o] \in S => o = n
  BY DEF Exclusive
<1>4. \A n \in Msgs \ {m} : at'[n] = at[n]
  BY <1>2
<1> HIDE DEF S
<1>5. expiries[k] = 0 => \A n \in Msgs : at'[n] \in S =>
            /\ lease'[k] = "processing"
            /\ \A o \in Msgs : at'[o] \in S => o = n
  BY <1>2, <1>3, <1>4
<1> QED BY <1>1, <1>2, <1>5 DEF Exclusive

\* Every step of a message is such a step: the table of what each await does to
\* the two keys.
LEMMA MessageStep ==
  ASSUME Types, NEW m \in Msgs,
         \/ Job(m) \/ RetryFailedPayment(m) \/ HandleDealDelivered(m) \/ HandleWhileStopping(m)
         \/ Crash(m) \/ HandleDeadLetter(m) \/ ReplayMessage(m)
  PROVE Step(m)
<1> USE ReleaseAssumption DEF Step, LeaseUse, BrokerType, CountType, Types,
        HolderSteps, PaySteps, DealSteps, DealLease, PayLease, bounds
<1>1. CASE RetryFailedPayment(m)
  BY <1>1 DEF RetryFailedPayment, DeadLetter
<1>2. CASE HandleDealDelivered(m)
  BY <1>2 DEF HandleDealDelivered, ParsePayload, DeadLetter, Go, OneMore,
     DeadLetter
<1>3. CASE HandleWhileStopping(m)
  BY <1>3 DEF HandleWhileStopping, Requeue, OneMore, DeadLetter
<1>4. CASE GetDealLease(m)
  BY <1>4 DEF GetDealLease, GetFree, Refused, Forget, GetTaken, Go
<1>5. CASE SetDealLease(m)
  BY <1>5 DEF SetDealLease, SetNX, Refused, Forget, GetTaken, Go
<1>6. CASE ReadDeal(m)
  BY <1>6 DEF ReadDeal, Forget, Go
<1>7. CASE GetPayLease(m)
  BY <1>7 DEF GetPayLease, GetFree, Refused, Forget, GetTaken, Go
<1>8. CASE SetPayLease(m)
  BY <1>8 DEF SetPayLease, SetNX, Refused, Forget, GetTaken, Go
<1>9. CASE ReleaseEscrow(m)
  BY <1>9 DEF ReleaseEscrow, Go
<1>10. CASE ReleaseRefused(m)
  BY <1>10 DEF ReleaseRefused, Go
<1>11. CASE ReleaseThrows(m)
  BY <1>11 DEF ReleaseThrows, Fault, Go
<1>12. CASE CommitPayout(m)
  BY <1>12 DEF CommitPayout, Go
<1>13. CASE RollbackPayout(m)
  BY <1>13 DEF RollbackPayout, Fault, Go
<1>14. CASE HandleEscrowFailure(m)
  BY <1>14 DEF HandleEscrowFailure, Fault, Go
<1>15. CASE MarkPayDone(m)
  BY <1>15 DEF MarkPayDone, MarkDone, Go
<1>16. CASE ReleasePayLease(m)
  BY <1>16 DEF ReleasePayLease, GetProcessing, GetOther, Del, Go
<1>17. CASE MarkDealDone(m)
  BY <1>17 DEF MarkDealDone, MarkDone, Go
<1>18. CASE Ack(m)
  BY <1>18 DEF Ack, Go
<1>19. CASE ReleaseDealLease(m)
  BY <1>19, ZenonT(60) DEF ReleaseDealLease, GetProcessing, GetOther, Del, Go
<1>20. CASE Nack(m)
  BY <1>20 DEF Nack, DeadLetter, Requeue, OneMore, DeadLetter
<1>21. CASE Crash(m)
  BY <1>21 DEF Crash, Go, DeadLetter, InFlight, JobSteps
<1>22. CASE HandleDeadLetter(m)
  BY <1>22 DEF HandleDeadLetter, Go
<1>23. CASE ReplayMessage(m)
  BY <1>23 DEF ReplayMessage, Go
<1> QED BY <1>1, <1>2, <1>3, <1>4, <1>5, <1>6, <1>7, <1>8, <1>9, <1>10, <1>11,
           <1>12, <1>13, <1>14, <1>15, <1>16, <1>17, <1>18, <1>19, <1>20,
           <1>21, <1>22, <1>23 DEF Job

\* A payment precedes the commit, the commit the done marker.
PaidInv ==
  /\ \A m \in Msgs : at[m] = "commit" => paid >= 1
  /\ \A m \in Msgs : at[m] = "done pay" => paid >= 1 /\ rows # "none"
  /\ lease[PayLease] = "done" => paid >= 1 /\ rows # "none"
  /\ status = "completed" => paid >= 1

\* The counts are natural numbers.
LEMMA Counts ==
  ASSUME CountType
  PROVE  /\ paid \in Nat /\ failures \in Nat /\ crashes \in Nat
         /\ expiries \in [Keys -> Nat]
BY Bounds DEF CountType, BoundFacts

\* releaseEscrow pays at most once, and pays when it returns.
LEMMA Payments ==
  ASSUME CountType, NEW m \in Msgs
  PROVE  /\ ReleaseEscrow(m) => paid' >= 1
         /\ ReleaseThrows(m) => (paid >= 1 => paid' >= 1) /\ paid' \in {paid, paid + 1}
<1>1. paid \in Nat
  BY Counts
<1> QED BY <1>1 DEF ReleaseEscrow, ReleaseThrows

\* Every step keeps that order.
LEMMA PaidNext ==
  Types /\ PaidInv /\ [Next]_vars => PaidInv'
<1> SUFFICES ASSUME Types, PaidInv, [Next]_vars PROVE PaidInv'
  OBVIOUS
<1> USE KeyFacts DEF Types, BrokerType, CountType, DbType, db, broker, bounds,
        PaidInv
<1>1. ASSUME NEW m \in Requests, CheckMilestone(m) PROVE PaidInv'
  BY <1>1 DEF CheckMilestone
<1>2. ASSUME NEW m \in Requests, CommitMilestone(m) PROVE PaidInv'
  BY <1>2 DEF CommitMilestone, broker, bounds
<1>3. ASSUME NEW m \in Requests, RollbackMilestone(m) PROVE PaidInv'
  BY <1>3 DEF RollbackMilestone, Fault
<1>4. ASSUME NEW m \in Requests, NEW sent \in BOOLEAN, UpdateMilestone(m, sent)
      PROVE  PaidInv'
  BY <1>4 DEF UpdateMilestone
<1>5. ASSUME NEW m \in Msgs, RetryFailedPayment(m) PROVE PaidInv'
  BY <1>5 DEF RetryFailedPayment
<1>6. ASSUME NEW m \in Msgs, HandleDealDelivered(m) PROVE PaidInv'
  BY <1>6 DEF HandleDealDelivered, ParsePayload, DeadLetter, Go, OneMore
<1>7. ASSUME NEW m \in Msgs, HandleWhileStopping(m) PROVE PaidInv'
  BY <1>7 DEF HandleWhileStopping, Requeue, OneMore
<1>8. ASSUME NEW m \in Msgs, GetDealLease(m) PROVE PaidInv'
  BY <1>8 DEF GetDealLease, GetFree, Refused, Forget, GetTaken, Go
<1>9. ASSUME NEW m \in Msgs, SetDealLease(m) PROVE PaidInv'
  BY <1>9 DEF SetDealLease, SetNX, Refused, Forget, GetTaken, Go
<1>10. ASSUME NEW m \in Msgs, ReadDeal(m) PROVE PaidInv'
  BY <1>10 DEF ReadDeal, Forget, Go
<1>11. ASSUME NEW m \in Msgs, GetPayLease(m) PROVE PaidInv'
  BY <1>11 DEF GetPayLease, GetFree, Refused, Forget, GetTaken, Go
<1>12. ASSUME NEW m \in Msgs, SetPayLease(m) PROVE PaidInv'
  BY <1>12 DEF SetPayLease, SetNX, Refused, Forget, GetTaken, Go
<1>13. ASSUME NEW m \in Msgs, ReleaseEscrow(m) PROVE PaidInv'
  <2>1. paid' >= 1
    BY <1>13, Payments
  <2> QED BY <1>13, <2>1 DEF ReleaseEscrow, Go
<1>14. ASSUME NEW m \in Msgs, ReleaseRefused(m) PROVE PaidInv'
  BY <1>14 DEF ReleaseRefused, Go
<1>15. ASSUME NEW m \in Msgs, ReleaseThrows(m) PROVE PaidInv'
  <2>1. paid >= 1 => paid' >= 1
    BY <1>15, Payments
  <2>2. UNCHANGED <<lease, status, rows>> /\ at' = [at EXCEPT ![m] = "fail"]
    BY <1>15 DEF ReleaseThrows, Go
  <2> QED BY <2>1, <2>2
<1>16. ASSUME NEW m \in Msgs, CommitPayout(m) PROVE PaidInv'
  BY <1>16 DEF CommitPayout, Go
<1>17. ASSUME NEW m \in Msgs, RollbackPayout(m) PROVE PaidInv'
  BY <1>17 DEF RollbackPayout, Fault, Go
<1>18. ASSUME NEW m \in Msgs, HandleEscrowFailure(m) PROVE PaidInv'
  BY <1>18 DEF HandleEscrowFailure, Fault, Go
<1>19. ASSUME NEW m \in Msgs, MarkPayDone(m) PROVE PaidInv'
  BY <1>19 DEF MarkPayDone, MarkDone, Go
<1>20. ASSUME NEW m \in Msgs, ReleasePayLease(m) PROVE PaidInv'
  BY <1>20, ZenonT(60) DEF ReleasePayLease, GetProcessing, GetOther, Del, Go
<1>21. ASSUME NEW m \in Msgs, MarkDealDone(m) PROVE PaidInv'
  BY <1>21 DEF MarkDealDone, MarkDone, Go
<1>22. ASSUME NEW m \in Msgs, Ack(m) PROVE PaidInv'
  BY <1>22 DEF Ack, Go
<1>23. ASSUME NEW m \in Msgs, ReleaseDealLease(m) PROVE PaidInv'
  BY <1>23, ZenonT(60) DEF ReleaseDealLease, GetProcessing, GetOther, Del, Go
<1>24. ASSUME NEW m \in Msgs, Nack(m) PROVE PaidInv'
  BY <1>24 DEF Nack, DeadLetter, Requeue, OneMore
<1>25. ASSUME NEW m \in Msgs, Crash(m) PROVE PaidInv'
  BY <1>25 DEF Crash, Go
<1>26. ASSUME NEW m \in Msgs, HandleDeadLetter(m) PROVE PaidInv'
  BY <1>26 DEF HandleDeadLetter, Go
<1>27. ASSUME NEW m \in Msgs, ReplayMessage(m) PROVE PaidInv'
  BY <1>27 DEF ReplayMessage, Go
<1>28. ASSUME NEW k \in Keys, ExpireUnused(k) PROVE PaidInv'
  BY <1>28 DEF ExpireUnused, Expire, Del
<1>29. ASSUME NEW k \in Keys, ExpireInUse(k) PROVE PaidInv'
  BY <1>29 DEF ExpireInUse, Expire, Del
<1>30. CASE UNCHANGED vars
  BY <1>30 DEF vars
<1> QED
  BY <1>1, <1>2, <1>3, <1>4, <1>5, <1>6, <1>7, <1>8, <1>9, <1>10, <1>11, <1>12,
     <1>13, <1>14, <1>15, <1>16, <1>17, <1>18, <1>19, <1>20, <1>21, <1>22,
     <1>23, <1>24, <1>25, <1>26, <1>27, <1>28, <1>29, <1>30 DEF Next, Job


\* An expiry under a live job is counted.
LEMMA ExpiryCounts ==
  ASSUME CountType, NEW k \in Keys, ExpireInUse(k)
  PROVE  expiries'[k] = expiries[k] + 1 /\ expiries'[k] # 0
BY Counts DEF ExpireInUse

\* Every step keeps both keys exclusive.
LEMMA ExclusiveNext ==
  ASSUME Types, NEW k \in Keys, Exclusive(k), [Next]_vars
  PROVE  Exclusive(k)'
<1>1. ASSUME UNCHANGED <<lease, at, expiries>> PROVE Exclusive(k)'
  BY <1>1 DEF Exclusive, HolderSteps
<1>2. ASSUME NEW m \in Requests,
             CheckMilestone(m) \/ CommitMilestone(m) \/ RollbackMilestone(m)
      PROVE  Exclusive(k)'
  BY <1>1, <1>2 DEF CheckMilestone, CommitMilestone, RollbackMilestone, Fault,
                    broker, bounds
<1>3. ASSUME NEW m \in Requests, NEW sent \in BOOLEAN, UpdateMilestone(m, sent)
      PROVE  Exclusive(k)'
  <2>1. m \in Msgs
    BY ReleaseAssumption
  <2>2. CASE sent
    <3>1. /\ at' = [at EXCEPT ![m] = "ready"] /\ at'[m] = "ready"
          /\ lease' = lease /\ expiries' = expiries
      BY <1>3, <2>1, <2>2 DEF UpdateMilestone, bounds, Types, BrokerType
    <3>2. \A j \in Keys : "ready" \notin HolderSteps(j)
      BY DEF HolderSteps, DealSteps, PaySteps
    <3>3. Step(m)
      BY <3>1, <3>2 DEF Step, LeaseUse
    <3> QED BY <2>1, <3>3, StepKeepsExclusive DEF Types
  <2>3. CASE ~sent
    BY <1>1, <1>3, <2>3 DEF UpdateMilestone
  <2> QED BY <2>2, <2>3
<1>4. ASSUME NEW m \in Msgs,
             \/ RetryFailedPayment(m) \/ HandleDealDelivered(m)
             \/ HandleWhileStopping(m) \/ Job(m) \/ Crash(m)
             \/ HandleDeadLetter(m) \/ ReplayMessage(m)
      PROVE  Exclusive(k)'
  BY <1>4, MessageStep, StepKeepsExclusive DEF Types
<1>5. ASSUME NEW j \in Keys, ExpireUnused(j) PROVE Exclusive(k)'
  <2>1. CASE j = k
    <3>1. \A m \in Msgs : at[m] \notin HolderSteps(k)
      <4>1. HolderSteps(k) \subseteq JobSteps
        BY DEF HolderSteps, JobSteps, DealSteps
      <4> QED BY <1>5, <2>1, <4>1 DEF ExpireUnused, InFlight
    <3>2. at' = at /\ HolderSteps(k)' = HolderSteps(k)
      BY <1>5 DEF ExpireUnused, broker, HolderSteps
    <3> QED BY <3>1, <3>2 DEF Exclusive
  <2>2. CASE j # k
    <3>1. lease'[k] = lease[k] /\ at' = at /\ expiries' = expiries
      BY <1>5, <2>2 DEF ExpireUnused, Expire, Del, broker, bounds, Types,
         BrokerType
    <3> QED BY <3>1 DEF Exclusive, HolderSteps
  <2> QED BY <2>1, <2>2
<1>6. ASSUME NEW j \in Keys, ExpireInUse(j) PROVE Exclusive(k)'
  <2>1. CASE j = k
    <3>1. expiries'[k] # 0
      BY <1>6, <2>1, ExpiryCounts DEF Types
    <3> QED BY <3>1 DEF Exclusive
  <2>2. CASE j # k
    <3>1. lease'[k] = lease[k] /\ at' = at /\ expiries'[k] = expiries[k]
      BY <1>6, <2>2 DEF ExpireInUse, Expire, Del, broker, Types, BrokerType,
         CountType
    <3> QED BY <3>1 DEF Exclusive, HolderSteps
  <2> QED BY <2>1, <2>2
<1>7. CASE UNCHANGED vars
  BY <1>1, <1>7 DEF vars, broker, bounds
<1> QED BY <1>2, <1>3, <1>4, <1>5, <1>6, <1>7 DEF Next

\* Neither key has run out under a live job.
Quiet == \A k \in Keys : expiries[k] = 0

\* Awaits that lead to a payout or to marking the rows as failed.
Paying == {"get pay", "set pay", "pay", "commit", "fail"}

\* After the commit no job is left that would pay again or mark the rows of the
\* deal as failed, unless a key ran out under a live job.
ConfirmedInv ==
    Quiet /\ status = "completed" =>
        rows = "confirmed" /\ \A m \in Msgs : at[m] \notin Paying

\* Every step keeps it.  The exclusive deal.delivered key is what the commit
\* needs: no other job has read the deal as delivered.
LEMMA ConfirmedNext ==
  ASSUME Types, Exclusive(DealLease), ConfirmedInv, [Next]_vars
  PROVE  ConfirmedInv'
<1> USE KeyFacts DEF Types, BrokerType, DbType, db, broker, bounds,
        ConfirmedInv, Paying, Quiet
<1>1. ASSUME NEW m \in Requests, CheckMilestone(m) PROVE ConfirmedInv'
  BY <1>1 DEF CheckMilestone
<1>2. ASSUME NEW m \in Requests, CommitMilestone(m) PROVE ConfirmedInv'
  BY <1>2 DEF CommitMilestone, broker, bounds
<1>3. ASSUME NEW m \in Requests, RollbackMilestone(m) PROVE ConfirmedInv'
  BY <1>3 DEF RollbackMilestone, Fault
<1>4. ASSUME NEW m \in Requests, NEW sent \in BOOLEAN, UpdateMilestone(m, sent)
      PROVE  ConfirmedInv'
  BY <1>4 DEF UpdateMilestone
<1>5. ASSUME NEW m \in Msgs, RetryFailedPayment(m) PROVE ConfirmedInv'
  BY <1>5 DEF RetryFailedPayment
<1>6. ASSUME NEW m \in Msgs, HandleDealDelivered(m) PROVE ConfirmedInv'
  BY <1>6 DEF HandleDealDelivered, ParsePayload, DeadLetter, Go, OneMore
<1>7. ASSUME NEW m \in Msgs, HandleWhileStopping(m) PROVE ConfirmedInv'
  BY <1>7 DEF HandleWhileStopping, Requeue, OneMore
<1>8. ASSUME NEW m \in Msgs, GetDealLease(m) PROVE ConfirmedInv'
  BY <1>8 DEF GetDealLease, GetFree, Refused, Forget, GetTaken, Go
<1>9. ASSUME NEW m \in Msgs, SetDealLease(m) PROVE ConfirmedInv'
  BY <1>9 DEF SetDealLease, SetNX, Refused, Forget, GetTaken, Go
<1>10. ASSUME NEW m \in Msgs, ReadDeal(m) PROVE ConfirmedInv'
  BY <1>10 DEF ReadDeal, Forget, Go
<1>11. ASSUME NEW m \in Msgs, GetPayLease(m) PROVE ConfirmedInv'
  BY <1>11 DEF GetPayLease, GetFree, Refused, Forget, GetTaken, Go
<1>12. ASSUME NEW m \in Msgs, SetPayLease(m) PROVE ConfirmedInv'
  BY <1>12 DEF SetPayLease, SetNX, Refused, Forget, GetTaken, Go
<1>13. ASSUME NEW m \in Msgs, ReleaseEscrow(m) PROVE ConfirmedInv'
  BY <1>13 DEF ReleaseEscrow, Go
<1>14. ASSUME NEW m \in Msgs, ReleaseRefused(m) PROVE ConfirmedInv'
  BY <1>14 DEF ReleaseRefused, Go
<1>15. ASSUME NEW m \in Msgs, ReleaseThrows(m) PROVE ConfirmedInv'
  BY <1>15 DEF ReleaseThrows, Fault, Go
<1>16. ASSUME NEW m \in Msgs, CommitPayout(m) PROVE ConfirmedInv'
  <2>1. /\ at' = [at EXCEPT ![m] = "done pay"] /\ rows' = "confirmed"
        /\ expiries' = expiries
    BY <1>16 DEF CommitPayout, Go
  <2>2. Quiet => \A n \in Msgs : at[n] \in DealSteps => n = m
    BY <1>16 DEF CommitPayout, DealSteps, PaySteps, Exclusive, HolderSteps
  <2>3. Quiet => \A n \in Msgs : n # m => at[n] \notin Paying
    BY <2>2 DEF DealSteps, PaySteps
  <2> QED BY <2>1, <2>3
<1>17. ASSUME NEW m \in Msgs, RollbackPayout(m) PROVE ConfirmedInv'
  BY <1>17 DEF RollbackPayout, Fault, Go
<1>18. ASSUME NEW m \in Msgs, HandleEscrowFailure(m) PROVE ConfirmedInv'
  BY <1>18 DEF HandleEscrowFailure, Fault, Go
<1>19. ASSUME NEW m \in Msgs, MarkPayDone(m) PROVE ConfirmedInv'
  BY <1>19 DEF MarkPayDone, MarkDone, Go
<1>20. ASSUME NEW m \in Msgs, ReleasePayLease(m) PROVE ConfirmedInv'
  BY <1>20 DEF ReleasePayLease, GetProcessing, GetOther, Del, Go
<1>21. ASSUME NEW m \in Msgs, MarkDealDone(m) PROVE ConfirmedInv'
  BY <1>21 DEF MarkDealDone, MarkDone, Go
<1>22. ASSUME NEW m \in Msgs, Ack(m) PROVE ConfirmedInv'
  BY <1>22 DEF Ack, Go
<1>23. ASSUME NEW m \in Msgs, ReleaseDealLease(m) PROVE ConfirmedInv'
  BY <1>23 DEF ReleaseDealLease, GetProcessing, GetOther, Del, Go
<1>24. ASSUME NEW m \in Msgs, Nack(m) PROVE ConfirmedInv'
  BY <1>24 DEF Nack, DeadLetter, Requeue, OneMore
<1>25. ASSUME NEW m \in Msgs, Crash(m) PROVE ConfirmedInv'
  BY <1>25 DEF Crash, Go
<1>26. ASSUME NEW m \in Msgs, HandleDeadLetter(m) PROVE ConfirmedInv'
  BY <1>26 DEF HandleDeadLetter, Go
<1>27. ASSUME NEW m \in Msgs, ReplayMessage(m) PROVE ConfirmedInv'
  BY <1>27 DEF ReplayMessage, Go
<1>28. ASSUME NEW k \in Keys, ExpireUnused(k) PROVE ConfirmedInv'
  BY <1>28 DEF ExpireUnused, Expire, Del
<1>29. ASSUME NEW k \in Keys, ExpireInUse(k) PROVE ConfirmedInv'
  <2>1. ~Quiet'
    BY <1>29, ExpiryCounts
  <2> QED BY <2>1
<1>30. CASE UNCHANGED vars
  BY <1>30 DEF vars
<1> QED
  BY <1>1, <1>2, <1>3, <1>4, <1>5, <1>6, <1>7, <1>8, <1>9, <1>10, <1>11, <1>12,
     <1>13, <1>14, <1>15, <1>16, <1>17, <1>18, <1>19, <1>20, <1>21, <1>22,
     <1>23, <1>24, <1>25, <1>26, <1>27, <1>28, <1>29, <1>30 DEF Next, Job

\* A delivery is forgotten in one of three ways.
LEMMA ForgottenNext ==
  ASSUME forgotten \subseteq {"unsent", "early", "orphan"}, [Next]_vars
  PROVE  forgotten' \subseteq {"unsent", "early", "orphan"}
<1>1. ASSUME forgotten' = forgotten
      PROVE  forgotten' \subseteq {"unsent", "early", "orphan"}
  BY <1>1
<1>2. ASSUME NEW c \in SUBSET {"unsent", "early", "orphan"},
             forgotten' = forgotten \cup c
      PROVE  forgotten' \subseteq {"unsent", "early", "orphan"}
  BY <1>2
<1>3. ASSUME NEW m \in Requests,
             CheckMilestone(m) \/ CommitMilestone(m) \/ RollbackMilestone(m)
      PROVE  forgotten' = forgotten
  BY <1>3 DEF CheckMilestone, CommitMilestone, RollbackMilestone, Fault, bounds
<1>4. ASSUME NEW m \in Requests, NEW sent \in BOOLEAN, UpdateMilestone(m, sent)
      PROVE  \E c \in SUBSET {"unsent", "early", "orphan"} :
               forgotten' = forgotten \cup c
  BY <1>4 DEF UpdateMilestone, bounds
<1>5. ASSUME NEW m \in Msgs,
             \/ GetDealLease(m) \/ SetDealLease(m) \/ ReadDeal(m)
             \/ GetPayLease(m) \/ SetPayLease(m)
      PROVE  \E c \in SUBSET {"unsent", "early", "orphan"} :
               forgotten' = forgotten \cup c
  <2>1. ASSUME NEW k, Refused(k)
        PROVE  \E c \in SUBSET {"unsent", "early", "orphan"} :
                 forgotten' = forgotten \cup c
    BY <2>1 DEF Refused, Forget
  <2>2. CASE ReadDeal(m)
    BY <2>2 DEF ReadDeal, Forget
  <2>3. CASE GetDealLease(m) \/ SetDealLease(m) \/ GetPayLease(m) \/ SetPayLease(m)
    BY <2>1, <2>3 DEF GetDealLease, SetDealLease, GetPayLease, SetPayLease, bounds
  <2> QED BY <1>5, <2>2, <2>3
<1>6. ASSUME NEW m \in Msgs,
             \/ ReleaseEscrow(m) \/ ReleaseRefused(m) \/ ReleaseThrows(m)
             \/ CommitPayout(m) \/ RollbackPayout(m) \/ HandleEscrowFailure(m)
             \/ MarkPayDone(m) \/ ReleasePayLease(m) \/ MarkDealDone(m) \/ Ack(m)
             \/ ReleaseDealLease(m) \/ Nack(m)
             \/ RetryFailedPayment(m) \/ HandleDealDelivered(m)
             \/ HandleWhileStopping(m) \/ Crash(m) \/ HandleDeadLetter(m)
             \/ ReplayMessage(m)
      PROVE  forgotten' = forgotten
  BY <1>6 DEF ReleaseEscrow, ReleaseRefused, ReleaseThrows, CommitPayout,
              RollbackPayout, HandleEscrowFailure, MarkPayDone, ReleasePayLease,
              MarkDealDone, Ack, ReleaseDealLease, Nack, RetryFailedPayment,
              HandleDealDelivered, HandleWhileStopping, Crash, HandleDeadLetter,
              ReplayMessage, Fault, bounds
<1>7. ASSUME NEW k \in Keys, ExpireUnused(k) \/ ExpireInUse(k)
      PROVE  forgotten' = forgotten
  BY <1>7 DEF ExpireUnused, ExpireInUse, bounds
<1>8. CASE UNCHANGED vars
  BY <1>1, <1>8 DEF vars, bounds
<1> QED BY <1>1, <1>2, <1>3, <1>4, <1>5, <1>6, <1>7, <1>8, Zenon DEF Next, Job

\* alerted is only ever set.
LEMMA AlertedNext ==
  ASSUME alerted \in BOOLEAN, [Next]_vars
  PROVE  alerted' \in BOOLEAN
<1>1. ASSUME NEW m \in Requests,
             \/ CheckMilestone(m) \/ CommitMilestone(m) \/ RollbackMilestone(m)
             \/ \E sent \in BOOLEAN : UpdateMilestone(m, sent)
      PROVE  alerted' = alerted
  BY <1>1 DEF CheckMilestone, CommitMilestone, RollbackMilestone,
     UpdateMilestone
<1>2. ASSUME NEW m \in Msgs, Job(m) PROVE alerted' = alerted
  BY <1>2 DEF Job, GetDealLease, SetDealLease, ReadDeal, GetPayLease,
     SetPayLease,
              ReleaseEscrow, ReleaseRefused, ReleaseThrows, CommitPayout,
              RollbackPayout, HandleEscrowFailure, MarkPayDone, ReleasePayLease,
              MarkDealDone, Ack, ReleaseDealLease, Nack
<1>3. ASSUME NEW m \in Msgs,
             \/ RetryFailedPayment(m) \/ HandleDealDelivered(m)
             \/ HandleWhileStopping(m) \/ Crash(m) \/ ReplayMessage(m)
      PROVE  alerted' = alerted
  BY <1>3 DEF RetryFailedPayment, HandleDealDelivered, HandleWhileStopping,
     Crash,
              ReplayMessage
<1>4. ASSUME NEW m \in Msgs, HandleDeadLetter(m) PROVE alerted' = TRUE
  BY <1>4 DEF HandleDeadLetter
<1>5. ASSUME NEW k \in Keys, ExpireUnused(k) \/ ExpireInUse(k)
      PROVE  alerted' = alerted
  BY <1>5 DEF ExpireUnused, ExpireInUse
<1>6. CASE UNCHANGED vars
  BY <1>6 DEF vars
<1> QED BY <1>1, <1>2, <1>3, <1>4, <1>5, <1>6, Zenon DEF Next

-----------------------------------------------------------------------------
(* The theorems on types, exclusion and the books of a completed deal. *)

\* The inductive invariant: types, one job at a time on each key, payments
\* before records, and nobody left to undo the records of a completed deal.
IInv ==
    /\ Types
    /\ Exclusive(DealLease) /\ Exclusive(PayLease)
    /\ PaidInv
    /\ ConfirmedInv

(* Every reachable state satisfies the inductive invariant.               *)
THEOREM IInvHolds == Spec => []IInv
<1>1. Init => IInv
  <2> SUFFICES ASSUME Init PROVE IInv
    OBVIOUS
  <2>1. Types
    BY InitTypes
  <2>2. \A m \in Msgs : at[m] \in {"unsent", "ready"}
    BY DEF Init
  <2>3. lease[PayLease] = "none" /\ status # "completed"
    BY KeyFacts DEF Init, LeaseInit
  <2>4. \A k \in Keys : Exclusive(k)
    BY <2>2 DEF Exclusive, HolderSteps, DealSteps, PaySteps
  <2> QED BY <2>1, <2>2, <2>3, <2>4, KeyFacts DEF IInv, PaidInv, ConfirmedInv
<1>2. IInv /\ [Next]_vars => IInv'
  <2> SUFFICES ASSUME IInv, [Next]_vars PROVE IInv'
    OBVIOUS
  <2>1. Types'
    BY BrokerNext, DbNext, CountNext DEF IInv, Types
  <2>2. Exclusive(DealLease)' /\ Exclusive(PayLease)'
    BY ExclusiveNext, KeyFacts DEF IInv
  <2>3. PaidInv' /\ ConfirmedInv'
    BY PaidNext, ConfirmedNext DEF IInv
  <2> QED BY <2>1, <2>2, <2>3 DEF IInv
<1> QED BY <1>1, <1>2, PTL DEF Spec

(* Every variable of the release has its type in every reachable state.   *)
THEOREM TypeCorrect == Spec => []TypeOK
<1> DEFINE Marks == /\ alerted \in BOOLEAN
                    /\ forgotten \subseteq {"unsent", "early", "orphan"}
<1>1. Init => Marks
  BY DEF Init
<1>2. Marks /\ [Next]_vars => Marks'
  BY AlertedNext, ForgottenNext
<1>3. IInv /\ Marks => TypeOK
  BY DEF IInv, Types, BrokerType, DbType, CountType, TypeOK, LeaseType
<1> QED BY <1>1, <1>2, <1>3, IInvHolds, PTL DEF Spec

(* For any number of messages, crashes, failures and replays, at most one *)
(* job is inside the payment.distribution section of processDealDelivered *)
(* as long as that key does not run out under a live job.                 *)
THEOREM ExclusivePayoutHolds == Spec => []ExclusivePayout
<1>1. IInv => ExclusivePayout
  BY DEF IInv, Exclusive, HolderSteps, ExclusivePayout
<1> QED BY <1>1, IInvHolds, PTL

(* The done marker of payment.distribution is never set for a deal that   *)
(* was not paid or whose payout rows were not committed.                  *)
THEOREM DoneMeansCommittedHolds == Spec => []DoneMeansCommitted
<1>1. IInv => DoneMeansCommitted
  BY DEF IInv, PaidInv, DoneMeansCommitted
<1> QED BY <1>1, IInvHolds, PTL

(* A completed deal was paid, and its payout rows stay confirmed unless a *)
(* key ran out under a live job.                                          *)
THEOREM CompletedMeansPaidHolds == Spec => []CompletedMeansPaid
<1>1. IInv => CompletedMeansPaid
  BY DEF IInv, PaidInv, ConfirmedInv, Quiet, CompletedMeansPaid
<1> QED BY <1>1, IInvHolds, PTL

-----------------------------------------------------------------------------
(* Payouts beyond the first. *)

\* Awaits between the decision to pay and winning payment.distribution.
Entering == {"get pay", "set pay"}

\* Before the milestone is committed nothing has moved.
Untouched ==
    milestones = 0 =>
        /\ status = "funded" /\ paid = 0 /\ lease[PayLease] = "none"
        /\ \A m \in Msgs : at[m] \notin PaySteps /\ at[m] \notin Entering

\* With one committed milestone, nothing reopens a deal that was paid and
\* recorded.
DoneIsCompleted ==
    milestones <= 1 =>
        /\ lease[PayLease] = "done" => status = "completed"
        /\ \A m \in Msgs : at[m] = "done pay" => status = "completed"

\* The message of a request is not sent before the transaction updates the deal.
Unsent == \A m \in Requests : request[m] \in {"new", "checked"} => at[m] = "unsent"

\* A committed milestone is counted.
LEMMA MilestoneCounts ==
  ASSUME milestones \in Nat, NEW m, CommitMilestone(m)
  PROVE  milestones' # 0 /\ (milestones' <= 1 => milestones = 0)
BY DEF CommitMilestone

\* Every step keeps Untouched.
LEMMA UntouchedNext ==
  ASSUME Types, Untouched, [Next]_vars
  PROVE  Untouched'
<1> USE KeyFacts DEF Types, BrokerType, DbType, db, broker, bounds, Untouched,
        PaySteps, Entering
<1>1. ASSUME NEW m \in Requests, CheckMilestone(m) PROVE Untouched'
  BY <1>1 DEF CheckMilestone
<1>2. ASSUME NEW m \in Requests, CommitMilestone(m) PROVE Untouched'
  <2>1. milestones' # 0
    BY <1>2, MilestoneCounts
  <2> QED BY <2>1
<1>3. ASSUME NEW m \in Requests, RollbackMilestone(m) PROVE Untouched'
  BY <1>3 DEF RollbackMilestone, Fault
<1>4. ASSUME NEW m \in Requests, NEW sent \in BOOLEAN, UpdateMilestone(m, sent)
      PROVE  Untouched'
  BY <1>4 DEF UpdateMilestone
<1>5. ASSUME NEW m \in Msgs, RetryFailedPayment(m) PROVE Untouched'
  BY <1>5 DEF RetryFailedPayment
<1>6. ASSUME NEW m \in Msgs, HandleDealDelivered(m) PROVE Untouched'
  BY <1>6 DEF HandleDealDelivered, ParsePayload, DeadLetter, Go, OneMore
<1>7. ASSUME NEW m \in Msgs, HandleWhileStopping(m) PROVE Untouched'
  BY <1>7 DEF HandleWhileStopping, Requeue, OneMore
<1>8. ASSUME NEW m \in Msgs, GetDealLease(m) PROVE Untouched'
  BY <1>8 DEF GetDealLease, GetFree, Refused, Forget, GetTaken, Go
<1>9. ASSUME NEW m \in Msgs, SetDealLease(m) PROVE Untouched'
  BY <1>9, ZenonT(60) DEF SetDealLease, SetNX, Refused, Forget, GetTaken, Go
<1>10. ASSUME NEW m \in Msgs, ReadDeal(m) PROVE Untouched'
  BY <1>10 DEF ReadDeal, Forget, Go
<1>11. ASSUME NEW m \in Msgs, GetPayLease(m) PROVE Untouched'
  BY <1>11 DEF GetPayLease, GetFree, Refused, Forget, GetTaken, Go
<1>12. ASSUME NEW m \in Msgs, SetPayLease(m) PROVE Untouched'
  BY <1>12 DEF SetPayLease, SetNX, Refused, Forget, GetTaken, Go
<1>13. ASSUME NEW m \in Msgs, ReleaseEscrow(m) PROVE Untouched'
  BY <1>13 DEF ReleaseEscrow, Go
<1>14. ASSUME NEW m \in Msgs, ReleaseRefused(m) PROVE Untouched'
  BY <1>14 DEF ReleaseRefused, Go
<1>15. ASSUME NEW m \in Msgs, ReleaseThrows(m) PROVE Untouched'
  BY <1>15 DEF ReleaseThrows, Fault, Go
<1>16. ASSUME NEW m \in Msgs, CommitPayout(m) PROVE Untouched'
  BY <1>16 DEF CommitPayout, Go
<1>17. ASSUME NEW m \in Msgs, RollbackPayout(m) PROVE Untouched'
  BY <1>17 DEF RollbackPayout, Fault, Go
<1>18. ASSUME NEW m \in Msgs, HandleEscrowFailure(m) PROVE Untouched'
  BY <1>18 DEF HandleEscrowFailure, Fault, Go
<1>19. ASSUME NEW m \in Msgs, MarkPayDone(m) PROVE Untouched'
  BY <1>19 DEF MarkPayDone, MarkDone, Go
<1>20. ASSUME NEW m \in Msgs, ReleasePayLease(m) PROVE Untouched'
  BY <1>20 DEF ReleasePayLease, GetProcessing, GetOther, Del, Go
<1>21. ASSUME NEW m \in Msgs, MarkDealDone(m) PROVE Untouched'
  BY <1>21 DEF MarkDealDone, MarkDone, Go
<1>22. ASSUME NEW m \in Msgs, Ack(m) PROVE Untouched'
  BY <1>22 DEF Ack, Go
<1>23. ASSUME NEW m \in Msgs, ReleaseDealLease(m) PROVE Untouched'
  BY <1>23 DEF ReleaseDealLease, GetProcessing, GetOther, Del, Go
<1>24. ASSUME NEW m \in Msgs, Nack(m) PROVE Untouched'
  BY <1>24 DEF Nack, DeadLetter, Requeue, OneMore
<1>25. ASSUME NEW m \in Msgs, Crash(m) PROVE Untouched'
  BY <1>25 DEF Crash, Go
<1>26. ASSUME NEW m \in Msgs, HandleDeadLetter(m) PROVE Untouched'
  BY <1>26 DEF HandleDeadLetter, Go
<1>27. ASSUME NEW m \in Msgs, ReplayMessage(m) PROVE Untouched'
  BY <1>27 DEF ReplayMessage, Go
<1>28. ASSUME NEW k \in Keys, ExpireUnused(k) PROVE Untouched'
  BY <1>28 DEF ExpireUnused, Expire, Del
<1>29. ASSUME NEW k \in Keys, ExpireInUse(k) PROVE Untouched'
  BY <1>29 DEF ExpireInUse, Expire, Del
<1>30. CASE UNCHANGED vars
  BY <1>30 DEF vars
<1> QED
  BY <1>1, <1>2, <1>3, <1>4, <1>5, <1>6, <1>7, <1>8, <1>9, <1>10, <1>11, <1>12,
     <1>13, <1>14, <1>15, <1>16, <1>17, <1>18, <1>19, <1>20, <1>21, <1>22,
     <1>23, <1>24, <1>25, <1>26, <1>27, <1>28, <1>29, <1>30 DEF Next, Job

\* Every step keeps DoneIsCompleted.
LEMMA DoneIsCompletedNext ==
  ASSUME Types, Untouched, DoneIsCompleted, [Next]_vars
  PROVE  DoneIsCompleted'
<1> USE KeyFacts DEF Types, BrokerType, DbType, db, broker, bounds,
        DoneIsCompleted
<1>1. ASSUME NEW m \in Requests, CheckMilestone(m) PROVE DoneIsCompleted'
  BY <1>1 DEF CheckMilestone
<1>2. ASSUME NEW m \in Requests, CommitMilestone(m) PROVE DoneIsCompleted'
  <2>1. milestones' <= 1 => milestones = 0
    BY <1>2, MilestoneCounts
  <2>2. lease' = lease /\ at' = at
    BY <1>2 DEF CommitMilestone
  <2> QED BY <2>1, <2>2 DEF Untouched, PaySteps
<1>3. ASSUME NEW m \in Requests, RollbackMilestone(m) PROVE DoneIsCompleted'
  BY <1>3 DEF RollbackMilestone, Fault
<1>4. ASSUME NEW m \in Requests, NEW sent \in BOOLEAN, UpdateMilestone(m, sent)
      PROVE  DoneIsCompleted'
  BY <1>4 DEF UpdateMilestone
<1>5. ASSUME NEW m \in Msgs, RetryFailedPayment(m) PROVE DoneIsCompleted'
  BY <1>5 DEF RetryFailedPayment
<1>6. ASSUME NEW m \in Msgs, HandleDealDelivered(m) PROVE DoneIsCompleted'
  BY <1>6 DEF HandleDealDelivered, ParsePayload, DeadLetter, Go, OneMore
<1>7. ASSUME NEW m \in Msgs, HandleWhileStopping(m) PROVE DoneIsCompleted'
  BY <1>7 DEF HandleWhileStopping, Requeue, OneMore
<1>8. ASSUME NEW m \in Msgs, GetDealLease(m) PROVE DoneIsCompleted'
  BY <1>8 DEF GetDealLease, GetFree, Refused, Forget, GetTaken, Go
<1>9. ASSUME NEW m \in Msgs, SetDealLease(m) PROVE DoneIsCompleted'
  BY <1>9 DEF SetDealLease, SetNX, Refused, Forget, GetTaken, Go
<1>10. ASSUME NEW m \in Msgs, ReadDeal(m) PROVE DoneIsCompleted'
  BY <1>10 DEF ReadDeal, Forget, Go
<1>11. ASSUME NEW m \in Msgs, GetPayLease(m) PROVE DoneIsCompleted'
  BY <1>11 DEF GetPayLease, GetFree, Refused, Forget, GetTaken, Go
<1>12. ASSUME NEW m \in Msgs, SetPayLease(m) PROVE DoneIsCompleted'
  BY <1>12 DEF SetPayLease, SetNX, Refused, Forget, GetTaken, Go
<1>13. ASSUME NEW m \in Msgs, ReleaseEscrow(m) PROVE DoneIsCompleted'
  BY <1>13 DEF ReleaseEscrow, Go
<1>14. ASSUME NEW m \in Msgs, ReleaseRefused(m) PROVE DoneIsCompleted'
  BY <1>14 DEF ReleaseRefused, Go
<1>15. ASSUME NEW m \in Msgs, ReleaseThrows(m) PROVE DoneIsCompleted'
  BY <1>15 DEF ReleaseThrows, Fault, Go
<1>16. ASSUME NEW m \in Msgs, CommitPayout(m) PROVE DoneIsCompleted'
  BY <1>16 DEF CommitPayout, Go
<1>17. ASSUME NEW m \in Msgs, RollbackPayout(m) PROVE DoneIsCompleted'
  BY <1>17 DEF RollbackPayout, Fault, Go
<1>18. ASSUME NEW m \in Msgs, HandleEscrowFailure(m) PROVE DoneIsCompleted'
  BY <1>18 DEF HandleEscrowFailure, Fault, Go
<1>19. ASSUME NEW m \in Msgs, MarkPayDone(m) PROVE DoneIsCompleted'
  BY <1>19 DEF MarkPayDone, MarkDone, Go
<1>20. ASSUME NEW m \in Msgs, ReleasePayLease(m) PROVE DoneIsCompleted'
  BY <1>20 DEF ReleasePayLease, GetProcessing, GetOther, Del, Go
<1>21. ASSUME NEW m \in Msgs, MarkDealDone(m) PROVE DoneIsCompleted'
  BY <1>21 DEF MarkDealDone, MarkDone, Go
<1>22. ASSUME NEW m \in Msgs, Ack(m) PROVE DoneIsCompleted'
  BY <1>22 DEF Ack, Go
<1>23. ASSUME NEW m \in Msgs, ReleaseDealLease(m) PROVE DoneIsCompleted'
  BY <1>23 DEF ReleaseDealLease, GetProcessing, GetOther, Del, Go
<1>24. ASSUME NEW m \in Msgs, Nack(m) PROVE DoneIsCompleted'
  BY <1>24 DEF Nack, DeadLetter, Requeue, OneMore
<1>25. ASSUME NEW m \in Msgs, Crash(m) PROVE DoneIsCompleted'
  BY <1>25 DEF Crash, Go
<1>26. ASSUME NEW m \in Msgs, HandleDeadLetter(m) PROVE DoneIsCompleted'
  BY <1>26 DEF HandleDeadLetter, Go
<1>27. ASSUME NEW m \in Msgs, ReplayMessage(m) PROVE DoneIsCompleted'
  BY <1>27 DEF ReplayMessage, Go
<1>28. ASSUME NEW k \in Keys, ExpireUnused(k) PROVE DoneIsCompleted'
  BY <1>28 DEF ExpireUnused, Expire, Del
<1>29. ASSUME NEW k \in Keys, ExpireInUse(k) PROVE DoneIsCompleted'
  BY <1>29 DEF ExpireInUse, Expire, Del
<1>30. CASE UNCHANGED vars
  BY <1>30 DEF vars
<1> QED
  BY <1>1, <1>2, <1>3, <1>4, <1>5, <1>6, <1>7, <1>8, <1>9, <1>10, <1>11, <1>12,
     <1>13, <1>14, <1>15, <1>16, <1>17, <1>18, <1>19, <1>20, <1>21, <1>22,
     <1>23, <1>24, <1>25, <1>26, <1>27, <1>28, <1>29, <1>30 DEF Next, Job

\* Every step keeps Unsent.
LEMMA UnsentNext ==
  ASSUME Types, Unsent, [Next]_vars
  PROVE  Unsent'
<1> USE ReleaseAssumption DEF Types, BrokerType, DbType, db, broker, Unsent
<1>1. ASSUME NEW m \in Requests, CheckMilestone(m) PROVE Unsent'
  BY <1>1 DEF CheckMilestone
<1>2. ASSUME NEW m \in Requests, CommitMilestone(m) PROVE Unsent'
  BY <1>2 DEF CommitMilestone, broker, bounds
<1>3. ASSUME NEW m \in Requests, RollbackMilestone(m) PROVE Unsent'
  BY <1>3 DEF RollbackMilestone, Fault
<1>4. ASSUME NEW m \in Requests, NEW sent \in BOOLEAN, UpdateMilestone(m, sent)
      PROVE  Unsent'
  BY <1>4 DEF UpdateMilestone
<1>5. ASSUME NEW m \in Msgs, RetryFailedPayment(m) PROVE Unsent'
  BY <1>5 DEF RetryFailedPayment
<1>6. ASSUME NEW m \in Msgs, HandleDealDelivered(m) PROVE Unsent'
  BY <1>6 DEF HandleDealDelivered, ParsePayload, DeadLetter, Go, OneMore
<1>7. ASSUME NEW m \in Msgs, HandleWhileStopping(m) PROVE Unsent'
  BY <1>7 DEF HandleWhileStopping, Requeue, OneMore
<1>8. ASSUME NEW m \in Msgs, GetDealLease(m) PROVE Unsent'
  BY <1>8 DEF GetDealLease, GetFree, Refused, Forget, GetTaken, Go
<1>9. ASSUME NEW m \in Msgs, SetDealLease(m) PROVE Unsent'
  BY <1>9 DEF SetDealLease, SetNX, Refused, Forget, GetTaken, Go
<1>10. ASSUME NEW m \in Msgs, ReadDeal(m) PROVE Unsent'
  BY <1>10 DEF ReadDeal, Forget, Go
<1>11. ASSUME NEW m \in Msgs, GetPayLease(m) PROVE Unsent'
  BY <1>11 DEF GetPayLease, GetFree, Refused, Forget, GetTaken, Go
<1>12. ASSUME NEW m \in Msgs, SetPayLease(m) PROVE Unsent'
  BY <1>12 DEF SetPayLease, SetNX, Refused, Forget, GetTaken, Go
<1>13. ASSUME NEW m \in Msgs, ReleaseEscrow(m) PROVE Unsent'
  BY <1>13 DEF ReleaseEscrow, Go
<1>14. ASSUME NEW m \in Msgs, ReleaseRefused(m) PROVE Unsent'
  BY <1>14 DEF ReleaseRefused, Go
<1>15. ASSUME NEW m \in Msgs, ReleaseThrows(m) PROVE Unsent'
  BY <1>15 DEF ReleaseThrows, Fault, Go
<1>16. ASSUME NEW m \in Msgs, CommitPayout(m) PROVE Unsent'
  BY <1>16 DEF CommitPayout, Go
<1>17. ASSUME NEW m \in Msgs, RollbackPayout(m) PROVE Unsent'
  BY <1>17 DEF RollbackPayout, Fault, Go
<1>18. ASSUME NEW m \in Msgs, HandleEscrowFailure(m) PROVE Unsent'
  BY <1>18 DEF HandleEscrowFailure, Fault, Go
<1>19. ASSUME NEW m \in Msgs, MarkPayDone(m) PROVE Unsent'
  BY <1>19 DEF MarkPayDone, MarkDone, Go
<1>20. ASSUME NEW m \in Msgs, ReleasePayLease(m) PROVE Unsent'
  BY <1>20 DEF ReleasePayLease, GetProcessing, GetOther, Del, Go
<1>21. ASSUME NEW m \in Msgs, MarkDealDone(m) PROVE Unsent'
  BY <1>21 DEF MarkDealDone, MarkDone, Go
<1>22. ASSUME NEW m \in Msgs, Ack(m) PROVE Unsent'
  BY <1>22 DEF Ack, Go
<1>23. ASSUME NEW m \in Msgs, ReleaseDealLease(m) PROVE Unsent'
  BY <1>23 DEF ReleaseDealLease, GetProcessing, GetOther, Del, Go
<1>24. ASSUME NEW m \in Msgs, Nack(m) PROVE Unsent'
  BY <1>24 DEF Nack, DeadLetter, Requeue, OneMore
<1>25. ASSUME NEW m \in Msgs, Crash(m) PROVE Unsent'
  <2>1. at[m] # "unsent"
    BY <1>25 DEF Crash, InFlight, JobSteps, DealSteps, PaySteps
  <2> QED BY <1>25, <2>1 DEF Crash, Go
<1>26. ASSUME NEW m \in Msgs, HandleDeadLetter(m) PROVE Unsent'
  BY <1>26 DEF HandleDeadLetter, Go
<1>27. ASSUME NEW m \in Msgs, ReplayMessage(m) PROVE Unsent'
  BY <1>27 DEF ReplayMessage, Go
<1>28. ASSUME NEW k \in Keys, ExpireUnused(k) PROVE Unsent'
  BY <1>28 DEF ExpireUnused, Expire, Del
<1>29. ASSUME NEW k \in Keys, ExpireInUse(k) PROVE Unsent'
  BY <1>29 DEF ExpireInUse, Expire, Del
<1>30. CASE UNCHANGED vars
  BY <1>30 DEF vars
<1> QED
  BY <1>1, <1>2, <1>3, <1>4, <1>5, <1>6, <1>7, <1>8, <1>9, <1>10, <1>11, <1>12,
     <1>13, <1>14, <1>15, <1>16, <1>17, <1>18, <1>19, <1>20, <1>21, <1>22,
     <1>23, <1>24, <1>25, <1>26, <1>27, <1>28, <1>29, <1>30 DEF Next, Job

\* Awaits of a job whose payout is still to come, or that will give up the key
\* and so let another job pay.
Costly == {"pay", "fail", "get pay again", "del pay"}
Spenders == {m \in Msgs : at[m] \in Costly}

\* A further job can win payment.distribution, now or once the key of a dead
\* job has run out.
Open ==
    /\ status = "delivered" \/ \E m \in Msgs : at[m] \in Entering
    /\ \/ lease[PayLease] = "none"
       \/ lease[PayLease] = "processing" /\ \A m \in Msgs : at[m] \notin PaySteps
OpenCount == IF Open THEN 1 ELSE 0

Budget == failures + crashes + expiries[PayLease]

Used == paid + Cardinality(Spenders) + OpenCount

\* Every payout made or still to come, beyond one, is paid for by a fault.
Credit == milestones <= 1 => Used <= Budget + 1

\* What Credit adds up are natural numbers.
CountsAreNat ==
    /\ IsFiniteSet(Spenders) /\ Cardinality(Spenders) \in Nat
    /\ paid \in Nat /\ OpenCount \in 0..1
    /\ milestones \in Nat /\ Budget \in Nat /\ Used \in Nat

\* They are, in every state of the right type.
LEMMA CreditCounts == Types => CountsAreNat
<1> SUFFICES ASSUME Types PROVE CountsAreNat
  OBVIOUS
<1>1. IsFiniteSet(Spenders) /\ Cardinality(Spenders) \in Nat
  BY ReleaseAssumption, FS_Subset, FS_CardinalityType DEF Spenders
<1>2. Budget \in Nat /\ paid \in Nat
  BY Counts, KeyFacts DEF Types, Budget
<1>3. OpenCount \in 0..1
  BY DEF OpenCount
<1>4. Used \in Nat
  BY <1>1, <1>2, <1>3 DEF Used
<1> QED BY <1>1, <1>2, <1>3, <1>4 DEF Types, DbType, CountsAreNat

\* A step whose payments, spenders and openings are paid for keeps Credit.
LEMMA CreditKept ==
  ASSUME Types, Types', Credit, milestones' <= 1 => milestones <= 1,
         \/ Used' <= Used /\ Budget' >= Budget
         \/ Used' <= Used + 1 /\ Budget' >= Budget + 1
  PROVE  Credit'
<1> SUFFICES ASSUME milestones' <= 1 PROVE Used' <= Budget' + 1
  BY DEF Credit
<1>1. CountsAreNat /\ CountsAreNat'
  BY CreditCounts, PTL
<1>2. /\ Used \in Int /\ Used' \in Int /\ Budget \in Int /\ Budget' \in Int
      /\ Used <= Budget + 1
  BY <1>1 DEF CountsAreNat, Credit
<1>3. ASSUME NEW u \in Int, NEW v \in Int, NEW b \in Int, NEW c \in Int, u <= b + 1
      PROVE  /\ v <= u /\ c >= b => v <= c + 1
             /\ v <= u + 1 /\ c >= b + 1 => v <= c + 1
  BY <1>3
<1>4. CASE Used' <= Used /\ Budget' >= Budget
  BY <1>2, <1>3, <1>4
<1>5. CASE Used' <= Used + 1 /\ Budget' >= Budget + 1
  BY <1>2, <1>3, <1>5
<1> QED BY <1>4, <1>5

\* How the step of one message changes the number of spenders.
LEMMA SpenderMoves ==
  ASSUME Types, NEW m \in Msgs, at' = [at EXCEPT ![m] = at'[m]]
  PROVE  /\ (at[m] \in Costly <=> at'[m] \in Costly)
               => Cardinality(Spenders)' = Cardinality(Spenders)
         /\ at[m] \notin Costly /\ at'[m] \in Costly
               => Cardinality(Spenders)' = Cardinality(Spenders) + 1
         /\ at[m] \in Costly /\ at'[m] \notin Costly
               => Cardinality(Spenders)' = Cardinality(Spenders) - 1
<1>1. \A n \in Msgs : n # m => at'[n] = at[n]
  BY DEF Types, BrokerType
<1>2. IsFiniteSet(Spenders)
  BY CreditCounts DEF CountsAreNat
<1> HIDE DEF Costly
<1>3. CASE at[m] \in Costly <=> at'[m] \in Costly
  <2>1. Spenders' = Spenders
    BY <1>1, <1>3 DEF Spenders
  <2> QED BY <1>3, <2>1
<1>4. CASE at[m] \notin Costly /\ at'[m] \in Costly
  <2>1. Spenders' = Spenders \cup {m} /\ m \notin Spenders
    BY <1>1, <1>4 DEF Spenders
  <2> QED BY <1>2, <1>4, <2>1, FS_AddElement
<1>5. CASE at[m] \in Costly /\ at'[m] \notin Costly
  <2>1. Spenders' = Spenders \ {m} /\ m \in Spenders
    BY <1>1, <1>5 DEF Spenders
  <2> QED BY <1>2, <1>5, <2>1, FS_RemoveElement
<1> QED BY <1>3, <1>4, <1>5

\* A step of one message that neither enters the payment section without a
\* delivered deal, nor leaves it, opens nothing.
LEMMA OpenMoves ==
  ASSUME Types, NEW m \in Msgs, at' = [at EXCEPT ![m] = at'[m]],
         lease'[PayLease] = lease[PayLease],
         status' = "delivered" => status = "delivered",
         at'[m] \in Entering => at[m] \in Entering \/ status = "delivered",
         at[m] \in PaySteps => at'[m] \in PaySteps
  PROVE  Open' => Open
<1>1. \A n \in Msgs : n # m => at'[n] = at[n]
  BY DEF Types, BrokerType
<1> SUFFICES ASSUME Open' PROVE Open
  OBVIOUS
<1>2. status = "delivered" \/ \E n \in Msgs : at[n] \in Entering
  <2>1. CASE status' = "delivered"
    BY <2>1
  <2>2. CASE \E n \in Msgs : at'[n] \in Entering
    BY <1>1, <2>2
  <2> QED BY <2>1, <2>2 DEF Open
<1>3. \/ lease[PayLease] = "none"
      \/ lease[PayLease] = "processing" /\ \A n \in Msgs : at[n] \notin PaySteps
  <2>1. \/ lease[PayLease] = "none"
        \/ lease[PayLease] = "processing" /\ \A n \in Msgs : at'[n] \notin PaySteps
    BY DEF Open
  <2> HIDE DEF PaySteps
  <2> QED BY <1>1, <2>1
<1> QED BY <1>2, <1>3 DEF Open

\* How the parts of Used add up in the steps of a release.
LEMMA UsedChanges ==
  ASSUME Types, Types', paid' \in {paid, paid + 1},
         Cardinality(Spenders)' \in {Cardinality(Spenders) - 1,
                                     Cardinality(Spenders),
                                     Cardinality(Spenders) + 1}
  PROVE  LET c == Cardinality(Spenders)
             d == Cardinality(Spenders)'
         IN  /\ paid' = paid /\ d <= c /\ (Open' => Open) => Used' <= Used
             /\ paid' = paid /\ d < c => Used' <= Used
             /\ paid' = paid /\ Open /\ ~Open' => Used' <= Used
             /\ d < c /\ (Open' => Open) => Used' <= Used
             /\ paid' = paid /\ d <= c => Used' <= Used + 1
             /\ paid' = paid /\ (Open' => Open) => Used' <= Used + 1
             /\ d <= c /\ (Open' => Open) => Used' <= Used + 1
<1> DEFINE c == Cardinality(Spenders)
           d == Cardinality(Spenders)'
<1>1. CountsAreNat /\ CountsAreNat'
  BY CreditCounts, PTL
<1>2. /\ OpenCount = IF Open THEN 1 ELSE 0
      /\ OpenCount' = IF Open' THEN 1 ELSE 0
  BY DEF OpenCount
<1>3. Used = paid + c + OpenCount /\ Used' = paid' + d + OpenCount'
  BY DEF Used
<1>4. paid \in Int /\ paid' \in Int /\ c \in Int /\ d \in Int
  BY <1>1 DEF CountsAreNat
<1>5. ASSUME NEW p \in Int, NEW q \in Int, NEW x \in Int, NEW y \in Int,
             NEW o \in {0, 1}, NEW r \in {0, 1},
             q \in {p, p + 1}, y \in {x - 1, x, x + 1}
      PROVE  /\ q = p /\ y <= x /\ (r = 1 => o = 1) => q + y + r <= p + x + o
             /\ q = p /\ y < x => q + y + r <= p + x + o
             /\ q = p /\ o = 1 /\ r = 0 => q + y + r <= p + x + o
             /\ y < x /\ (r = 1 => o = 1) => q + y + r <= p + x + o
             /\ q = p /\ y <= x => q + y + r <= p + x + o + 1
             /\ q = p /\ (r = 1 => o = 1) => q + y + r <= p + x + o + 1
             /\ y <= x /\ (r = 1 => o = 1) => q + y + r <= p + x + o + 1
  BY <1>5
<1> HIDE DEF c, d
<1>6. paid' \in {paid, paid + 1} /\ d \in {c - 1, c, c + 1}
  BY DEF c, d
<1>7. /\ paid' = paid /\ d <= c /\ (Open' => Open) => Used' <= Used
      /\ paid' = paid /\ d < c => Used' <= Used
      /\ paid' = paid /\ Open /\ ~Open' => Used' <= Used
      /\ d < c /\ (Open' => Open) => Used' <= Used
      /\ paid' = paid /\ d <= c => Used' <= Used + 1
      /\ paid' = paid /\ (Open' => Open) => Used' <= Used + 1
      /\ d <= c /\ (Open' => Open) => Used' <= Used + 1
  BY <1>2, <1>3, <1>4, <1>5, <1>6
<1> QED BY <1>7 DEF c, d

\* Faults are counted, and nothing takes them back.
LEMMA BudgetChanges ==
  ASSUME CountType
  PROVE  /\ UNCHANGED bounds => Budget' >= Budget
         /\ Fault => Budget' >= Budget + 1
         /\ \A m \in Msgs : Crash(m) => Budget' >= Budget + 1
         /\ \A k \in Keys : ExpireInUse(k) => Budget' >= Budget
         /\ ExpireInUse(PayLease) => Budget' >= Budget + 1
<1>1. /\ failures \in Nat /\ crashes \in Nat /\ expiries \in [Keys -> Nat]
      /\ expiries[PayLease] \in Nat
  BY Counts, KeyFacts
<1>2. UNCHANGED bounds => Budget' >= Budget
  BY <1>1 DEF bounds, Budget
<1>3. Fault => Budget' >= Budget + 1
  BY <1>1 DEF Fault, Budget
<1>4. ASSUME NEW m \in Msgs, Crash(m) PROVE Budget' >= Budget + 1
  BY <1>1, <1>4 DEF Crash, Budget
<1>5. ASSUME ExpireInUse(PayLease)
      PROVE  Budget' >= Budget + 1 /\ Budget' >= Budget
  <2>1. expiries'[PayLease] = expiries[PayLease] + 1
    BY <1>5, KeyFacts, ExpiryCounts
  <2>2. failures' = failures /\ crashes' = crashes
    BY <1>5 DEF ExpireInUse
  <2> QED BY <1>1, <2>1, <2>2 DEF Budget
<1>6. ASSUME ExpireInUse(DealLease) PROVE Budget' >= Budget
  <2>1. expiries'[PayLease] = expiries[PayLease]
    BY <1>1, <1>6, KeyFacts DEF ExpireInUse
  <2>2. failures' = failures /\ crashes' = crashes
    BY <1>6 DEF ExpireInUse
  <2> QED BY <1>1, <2>1, <2>2 DEF Budget
<1> QED BY <1>2, <1>3, <1>4, <1>5, <1>6, KeyFacts

\* A step of message m that neither pays, nor joins or leaves the spenders, nor
\* opens the payment section.
Neutral(m) ==
    /\ at' = [at EXCEPT ![m] = at'[m]]
    /\ at[m] \in Costly <=> at'[m] \in Costly
    /\ at'[m] \in Entering => at[m] \in Entering \/ status = "delivered"
    /\ at[m] \in PaySteps => at'[m] \in PaySteps
    /\ lease'[PayLease] = lease[PayLease]
    /\ status' = "delivered" => status = "delivered"
    /\ paid' = paid /\ milestones' = milestones

\* Such a step keeps Credit.
LEMMA NeutralKeepsCredit ==
  ASSUME Types, Types', Credit, NEW m \in Msgs, Neutral(m),
         Budget' >= Budget
  PROVE  Credit'
<1>1. Cardinality(Spenders)' = Cardinality(Spenders)
  BY SpenderMoves DEF Neutral
<1>2. Open' => Open
  BY OpenMoves DEF Neutral
<1>3. Cardinality(Spenders) \in Int
  BY CreditCounts DEF CountsAreNat
<1>4. Used' <= Used
  BY <1>1, <1>2, <1>3, UsedChanges DEF Neutral
<1> QED BY <1>4, CreditKept DEF Neutral

\* A step that moves no message and changes neither the deal nor the payments
\* keeps Credit.
LEMMA UnmovedKeepsCredit ==
  ASSUME Types, Types', Credit, Budget' >= Budget,
         UNCHANGED <<at, status, paid, milestones>>,
         lease'[PayLease] = lease[PayLease]
  PROVE  Credit'
<1>1. Cardinality(Spenders)' = Cardinality(Spenders)
  BY DEF Spenders
<1>2. Open' = Open
  BY DEF Open
<1>3. Cardinality(Spenders) \in Int
  BY CreditCounts DEF CountsAreNat
<1>4. Used' <= Used
  BY <1>1, <1>2, <1>3, UsedChanges
<1> QED BY <1>4, CreditKept

\* A step that fails at most once does not lower the budget.
LEMMA StepBudget ==
  ASSUME CountType, failures' \in {failures, failures + 1},
         UNCHANGED <<crashes, expiries>>
  PROVE  Budget' >= Budget
<1>1. /\ failures \in Nat /\ crashes \in Nat /\ expiries[PayLease] \in Nat
  BY Counts, KeyFacts
<1> QED BY <1>1 DEF Budget

\* The first milestone opens the payment section, and nothing has been paid yet.
LEMMA FirstMilestone ==
  ASSUME Types, Types', Untouched, NEW m \in Requests, CommitMilestone(m)
  PROVE  Credit'
<1> SUFFICES ASSUME milestones' <= 1 PROVE Used' <= Budget' + 1
  BY DEF Credit
<1>1. milestones = 0
  BY MilestoneCounts DEF Types, DbType
<1>2. paid = 0 /\ \A n \in Msgs : at[n] \notin PaySteps
  BY <1>1 DEF Untouched
<1>3. Costly \subseteq PaySteps
  BY DEF Costly, PaySteps
<1>4. paid' = 0 /\ at' = at
  BY <1>2 DEF CommitMilestone, broker
<1>5. Spenders' = {}
  BY <1>2, <1>3, <1>4 DEF Spenders
<1>6. Cardinality(Spenders)' = 0
  BY <1>5, FS_EmptySet
<1>7. CountsAreNat'
  BY CreditCounts, PTL
<1>8. OpenCount' \in 0..1 /\ Budget' \in Nat
  BY <1>7 DEF CountsAreNat
<1>9. Used' = 0 + 0 + OpenCount'
  BY <1>4, <1>6 DEF Used
<1>10. ASSUME NEW o \in 0..1, NEW b \in Nat PROVE 0 + 0 + o <= b + 1
  BY <1>10
<1> QED BY <1>8, <1>9, <1>10

\* Every step keeps Credit.
LEMMA CreditNext ==
  ASSUME Types, Types', Untouched, DoneIsCompleted, Unsent, Credit, [Next]_vars
  PROVE  Credit'
<1> USE KeyFacts DEF Types, BrokerType, DbType, db, broker, bounds, Neutral,
        Costly, Entering, PaySteps
<1>1. ASSUME NEW m \in Requests, CheckMilestone(m) PROVE Credit'
  BY <1>1, UnmovedKeepsCredit, BudgetChanges DEF CheckMilestone
<1>2. ASSUME NEW m \in Requests, CommitMilestone(m) PROVE Credit'
  BY <1>2, FirstMilestone
<1>3. ASSUME NEW m \in Requests, RollbackMilestone(m) PROVE Credit'
  <2>1. Budget' >= Budget
    BY <1>3, StepBudget DEF RollbackMilestone, Fault
  <2> QED BY <1>3, <2>1, UnmovedKeepsCredit DEF RollbackMilestone
<1>4. ASSUME NEW m \in Requests, NEW sent \in BOOLEAN, UpdateMilestone(m, sent)
      PROVE  Credit'
  <2>1. CASE sent
    <3>1. at[m] = "unsent" /\ m \in Msgs
      BY <1>4, ReleaseAssumption DEF UpdateMilestone, Unsent
    <3>2. Neutral(m)
      BY <1>4, <2>1, <3>1 DEF UpdateMilestone
    <3>3. Budget' >= Budget
      BY <1>4, <2>1, BudgetChanges DEF UpdateMilestone
    <3> QED BY <3>1, <3>2, <3>3, NeutralKeepsCredit
  <2>2. CASE ~sent
    <3>1. Budget' >= Budget
      BY <1>4, <2>2, StepBudget DEF UpdateMilestone
    <3> QED BY <1>4, <2>2, <3>1, UnmovedKeepsCredit DEF UpdateMilestone
  <2> QED BY <2>1, <2>2
<1>5. ASSUME NEW m \in Msgs, RetryFailedPayment(m) PROVE Credit'
  <2>1. Neutral(m)
    BY <1>5 DEF RetryFailedPayment
  <2>2. Budget' >= Budget
    BY <1>5, BudgetChanges DEF RetryFailedPayment
  <2> QED BY <2>1, <2>2, NeutralKeepsCredit
<1>6. ASSUME NEW m \in Msgs, HandleDealDelivered(m) PROVE Credit'
  <2>1. Neutral(m)
    BY <1>6, ZenonT(60) DEF HandleDealDelivered, ParsePayload, DeadLetter, Go, OneMore
  <2>2. Budget' >= Budget
    BY <1>6, BudgetChanges DEF HandleDealDelivered
  <2> QED BY <2>1, <2>2, NeutralKeepsCredit
<1>7. ASSUME NEW m \in Msgs, HandleWhileStopping(m) PROVE Credit'
  <2>1. Neutral(m)
    BY <1>7 DEF HandleWhileStopping, Requeue, OneMore
  <2>2. Budget' >= Budget
    BY <1>7, BudgetChanges DEF HandleWhileStopping
  <2> QED BY <2>1, <2>2, NeutralKeepsCredit
<1>8. ASSUME NEW m \in Msgs, GetDealLease(m) PROVE Credit'
  <2>1. Neutral(m)
    BY <1>8, ZenonT(60) DEF GetDealLease, GetFree, Refused, Forget, GetTaken, Go
  <2>2. Budget' >= Budget
    BY <1>8, StepBudget DEF GetDealLease, Refused, Forget
  <2> QED BY <2>1, <2>2, NeutralKeepsCredit
<1>9. ASSUME NEW m \in Msgs, SetDealLease(m) PROVE Credit'
  <2>1. Neutral(m)
    BY <1>9, ZenonT(60) DEF SetDealLease, SetNX, Refused, Forget, GetTaken, Go
  <2>2. Budget' >= Budget
    BY <1>9, StepBudget DEF SetDealLease, Refused, Forget
  <2> QED BY <2>1, <2>2, NeutralKeepsCredit
<1>10. ASSUME NEW m \in Msgs, ReadDeal(m) PROVE Credit'
  <2>1. Neutral(m)
    BY <1>10 DEF ReadDeal, Forget, Go
  <2>2. Budget' >= Budget
    BY <1>10, StepBudget DEF ReadDeal, Forget
  <2> QED BY <2>1, <2>2, NeutralKeepsCredit
<1>11. ASSUME NEW m \in Msgs, GetPayLease(m) PROVE Credit'
  <2>1. Neutral(m)
    BY <1>11, ZenonT(60) DEF GetPayLease, GetFree, Refused, Forget, GetTaken, Go
  <2>2. Budget' >= Budget
    BY <1>11, StepBudget DEF GetPayLease, Refused, Forget
  <2> QED BY <2>1, <2>2, NeutralKeepsCredit
<1>12. ASSUME NEW m \in Msgs, SetPayLease(m) PROVE Credit'
  <2>1. CASE at'[m] = "done deal"
    <3>1. Neutral(m)
      BY <1>12, <2>1 DEF SetPayLease, SetNX, Refused, Forget, GetTaken, Go
    <3>2. Budget' >= Budget
      BY <1>12, StepBudget DEF SetPayLease, Refused, Forget
    <3> QED BY <3>1, <3>2, NeutralKeepsCredit
  <2>2. CASE at'[m] # "done deal"
    <3>1. /\ lease[PayLease] = "none" /\ lease'[PayLease] = "processing"
          /\ at[m] = "set pay" /\ at' = [at EXCEPT ![m] = "pay"] /\ at'[m] = "pay"
          /\ UNCHANGED <<paid, milestones, bounds>>
      BY <1>12, <2>2, ZenonT(60) DEF SetPayLease, SetNX, Refused, Forget, GetTaken, Go
    <3>2. Open /\ ~Open'
      BY <3>1 DEF Open
    <3>3. Cardinality(Spenders)' = Cardinality(Spenders) + 1
      BY <3>1, SpenderMoves
    <3>4. Used' <= Used
      BY <3>1, <3>2, <3>3, UsedChanges
    <3> QED BY <3>1, <3>4, BudgetChanges, CreditKept
  <2> QED BY <2>1, <2>2
<1>13. ASSUME NEW m \in Msgs, ReleaseEscrow(m) PROVE Credit'
  <2>1. /\ at[m] = "pay" /\ at' = [at EXCEPT ![m] = "commit"] /\ at'[m] = "commit"
        /\ paid' = paid + 1 /\ UNCHANGED <<lease, status, milestones, bounds>>
    BY <1>13 DEF ReleaseEscrow, Go
  <2>2. Cardinality(Spenders)' = Cardinality(Spenders) - 1
    BY <2>1, SpenderMoves
  <2>3. Open' => Open
    BY <2>1, OpenMoves
  <2>4. Cardinality(Spenders)' < Cardinality(Spenders)
    BY <2>2, CreditCounts DEF CountsAreNat
  <2>5. Used' <= Used
    BY <2>1, <2>2, <2>3, <2>4, UsedChanges
  <2> QED BY <2>1, <2>5, BudgetChanges, CreditKept
<1>14. ASSUME NEW m \in Msgs, ReleaseRefused(m) PROVE Credit'
  <2>1. Neutral(m)
    BY <1>14 DEF ReleaseRefused, Go
  <2>2. Budget' >= Budget
    BY <1>14, BudgetChanges DEF ReleaseRefused
  <2> QED BY <2>1, <2>2, NeutralKeepsCredit
<1>15. ASSUME NEW m \in Msgs, ReleaseThrows(m) PROVE Credit'
  <2>1. /\ at[m] = "pay" /\ at' = [at EXCEPT ![m] = "fail"] /\ at'[m] = "fail"
        /\ UNCHANGED <<lease, status, milestones>> /\ Fault
    BY <1>15 DEF ReleaseThrows, Go
  <2>2. paid' \in {paid, paid + 1}
    BY <1>15, Payments
  <2>3. Cardinality(Spenders)' = Cardinality(Spenders)
    BY <2>1, SpenderMoves
  <2>4. Open' => Open
    BY <2>1, OpenMoves
  <2>5. Cardinality(Spenders)' <= Cardinality(Spenders)
    BY <2>3, CreditCounts DEF CountsAreNat
  <2>6. Used' <= Used + 1
    BY <2>2, <2>3, <2>4, <2>5, UsedChanges
  <2> QED BY <2>1, <2>6, BudgetChanges, CreditKept
<1>16. ASSUME NEW m \in Msgs, CommitPayout(m) PROVE Credit'
  <2>1. Neutral(m)
    BY <1>16 DEF CommitPayout, Go
  <2>2. Budget' >= Budget
    BY <1>16, BudgetChanges DEF CommitPayout
  <2> QED BY <2>1, <2>2, NeutralKeepsCredit
<1>17. ASSUME NEW m \in Msgs, RollbackPayout(m) PROVE Credit'
  <2>1. /\ at[m] = "commit" /\ at' = [at EXCEPT ![m] = "fail"] /\ at'[m] = "fail"
        /\ UNCHANGED <<lease, status, paid, milestones>> /\ Fault
    BY <1>17 DEF RollbackPayout, Go
  <2>2. Cardinality(Spenders)' = Cardinality(Spenders) + 1
    BY <2>1, SpenderMoves
  <2>3. Open' => Open
    BY <2>1, OpenMoves
  <2>4. Used' <= Used + 1
    BY <2>1, <2>2, <2>3, UsedChanges
  <2> QED BY <2>1, <2>4, BudgetChanges, CreditKept
<1>18. ASSUME NEW m \in Msgs, HandleEscrowFailure(m) PROVE Credit'
  <2>1. Neutral(m)
    BY <1>18 DEF HandleEscrowFailure, Go
  <2>2. Budget' >= Budget
    BY <1>18, StepBudget DEF HandleEscrowFailure, Fault
  <2> QED BY <2>1, <2>2, NeutralKeepsCredit
<1>19. ASSUME NEW m \in Msgs, MarkPayDone(m) PROVE Credit'
  <2>1. /\ at[m] = "done pay" /\ at' = [at EXCEPT ![m] = "done deal"]
        /\ at'[m] = "done deal" /\ lease'[PayLease] = "done"
        /\ UNCHANGED <<paid, milestones, bounds>>
    BY <1>19, ZenonT(60) DEF MarkPayDone, MarkDone, Go
  <2>2. Cardinality(Spenders)' = Cardinality(Spenders)
    BY <2>1, SpenderMoves
  <2>3. ~Open'
    BY <2>1 DEF Open
  <2>4. Cardinality(Spenders)' <= Cardinality(Spenders)
    BY <2>2, CreditCounts DEF CountsAreNat
  <2>5. Used' <= Used
    BY <2>1, <2>2, <2>3, <2>4, UsedChanges
  <2> QED BY <2>1, <2>5, BudgetChanges, CreditKept
<1>20. ASSUME NEW m \in Msgs, ReleasePayLease(m) PROVE Credit'
  <2>1. CASE at'[m] = "del pay"
    <3>1. Neutral(m)
      BY <1>20, <2>1 DEF ReleasePayLease, GetProcessing, GetOther, Del, Go
    <3>2. Budget' >= Budget
      BY <1>20, BudgetChanges DEF ReleasePayLease
    <3> QED BY <3>1, <3>2, NeutralKeepsCredit
  <2>2. CASE at'[m] # "del pay"
    <3>1. /\ at[m] \in Costly /\ at'[m] \notin Costly
          /\ at' = [at EXCEPT ![m] = at'[m]]
          /\ UNCHANGED <<paid, milestones, bounds>>
      BY <1>20, <2>2, ZenonT(60) DEF ReleasePayLease, GetProcessing, GetOther, Del, Go
    <3>2. Cardinality(Spenders)' = Cardinality(Spenders) - 1
      BY <3>1, SpenderMoves
    <3>3. Cardinality(Spenders)' < Cardinality(Spenders)
      BY <3>2, CreditCounts DEF CountsAreNat
    <3>4. Used' <= Used
      BY <3>1, <3>2, <3>3, UsedChanges
    <3> QED BY <3>1, <3>4, BudgetChanges, CreditKept
  <2> QED BY <2>1, <2>2
<1>21. ASSUME NEW m \in Msgs, MarkDealDone(m) PROVE Credit'
  <2>1. Neutral(m)
    BY <1>21, ZenonT(60) DEF MarkDealDone, MarkDone, Go
  <2>2. Budget' >= Budget
    BY <1>21, BudgetChanges DEF MarkDealDone
  <2> QED BY <2>1, <2>2, NeutralKeepsCredit
<1>22. ASSUME NEW m \in Msgs, Ack(m) PROVE Credit'
  <2>1. Neutral(m)
    BY <1>22 DEF Ack, Go
  <2>2. Budget' >= Budget
    BY <1>22, BudgetChanges DEF Ack
  <2> QED BY <2>1, <2>2, NeutralKeepsCredit
<1>23. ASSUME NEW m \in Msgs, ReleaseDealLease(m) PROVE Credit'
  <2>1. Neutral(m)
    BY <1>23, ZenonT(60) DEF ReleaseDealLease, GetProcessing, GetOther, Del, Go
  <2>2. Budget' >= Budget
    BY <1>23, BudgetChanges DEF ReleaseDealLease
  <2> QED BY <2>1, <2>2, NeutralKeepsCredit
<1>24. ASSUME NEW m \in Msgs, Nack(m) PROVE Credit'
  <2>1. Neutral(m)
    BY <1>24, ZenonT(60) DEF Nack, DeadLetter, Requeue, OneMore
  <2>2. Budget' >= Budget
    BY <1>24, BudgetChanges DEF Nack
  <2> QED BY <2>1, <2>2, NeutralKeepsCredit
<1>25. ASSUME NEW m \in Msgs, Crash(m) PROVE Credit'
  <2>1. /\ at' = [at EXCEPT ![m] = "ready"] /\ at'[m] = "ready"
        /\ UNCHANGED <<paid, milestones>>
    BY <1>25 DEF Crash, Go
  <2>2. Cardinality(Spenders)' \in {Cardinality(Spenders) - 1, Cardinality(Spenders)}
    BY <2>1, SpenderMoves
  <2>3. Cardinality(Spenders)' <= Cardinality(Spenders)
    BY <2>2, CreditCounts DEF CountsAreNat
  <2>4. Used' <= Used + 1
    BY <2>1, <2>2, <2>3, UsedChanges
  <2> QED BY <1>25, <2>1, <2>4, BudgetChanges, CreditKept
<1>26. ASSUME NEW m \in Msgs, HandleDeadLetter(m) PROVE Credit'
  <2>1. Neutral(m)
    BY <1>26 DEF HandleDeadLetter, Go
  <2>2. Budget' >= Budget
    BY <1>26, BudgetChanges DEF HandleDeadLetter
  <2> QED BY <2>1, <2>2, NeutralKeepsCredit
<1>27. ASSUME NEW m \in Msgs, ReplayMessage(m) PROVE Credit'
  <2>1. Neutral(m)
    BY <1>27 DEF ReplayMessage, Go
  <2>2. failures' = failures /\ crashes' = crashes /\ expiries' = expiries
    BY <1>27 DEF ReplayMessage
  <2>3. Budget' = Budget /\ Budget \in Int
    BY <2>2, CreditCounts DEF Budget, CountsAreNat
  <2>4. Budget' >= Budget
    BY <2>3
  <2> QED BY <2>1, <2>4, NeutralKeepsCredit
<1>28. ASSUME NEW k \in Keys, ExpireUnused(k) PROVE Credit'
  <2>1. UNCHANGED <<at, status, paid, milestones, bounds>>
    BY <1>28 DEF ExpireUnused
  <2>2. CASE k = DealLease
    <3>1. lease'[PayLease] = lease[PayLease]
      BY <1>28, <2>2 DEF ExpireUnused, Expire, Del
    <3> QED BY <2>1, <3>1, BudgetChanges, UnmovedKeepsCredit
  <2>3. CASE k = PayLease
    <3>1. Cardinality(Spenders)' = Cardinality(Spenders)
      BY <2>1 DEF Spenders
    <3>2. Cardinality(Spenders)' <= Cardinality(Spenders)
      BY <3>1, CreditCounts DEF CountsAreNat
    <3>3. milestones <= 1 /\ Open' => Open
      <4> SUFFICES ASSUME milestones <= 1, Open' PROVE Open
        OBVIOUS
      <4>1. CASE lease[PayLease] = "done"
        <5>1. status = "completed"
          BY <4>1 DEF DoneIsCompleted
        <5>2. \A m \in Msgs : at[m] \notin Entering
          BY <1>28, <2>3, <4>1 DEF ExpireUnused, InFlight, JobSteps, DealSteps
        <5> QED BY <2>1, <5>1, <5>2 DEF Open
      <4>2. CASE lease[PayLease] # "done"
        <5>1. \A m \in Msgs : at[m] \notin PaySteps
          BY <1>28, <2>3, <4>2 DEF ExpireUnused, HolderSteps
        <5>2. lease[PayLease] \in {"none", "processing"}
          BY <4>2
        <5> QED BY <2>1, <5>1, <5>2 DEF Open
      <4> QED BY <4>1, <4>2
    <3>4. milestones <= 1 => Used' <= Used
      BY <2>1, <3>1, <3>2, <3>3, UsedChanges
    <3>5. CASE milestones <= 1
      BY <2>1, <3>4, <3>5, BudgetChanges, CreditKept
    <3>6. CASE ~(milestones <= 1)
      BY <2>1, <3>6 DEF Credit
    <3> QED BY <3>5, <3>6
  <2> QED BY <2>2, <2>3
<1>29. ASSUME NEW k \in Keys, ExpireInUse(k) PROVE Credit'
  <2>1. UNCHANGED <<at, status, paid, milestones>>
    BY <1>29 DEF ExpireInUse
  <2>2. CASE k = DealLease
    <3>1. lease'[PayLease] = lease[PayLease]
      BY <1>29, <2>2 DEF ExpireInUse, Expire, Del
    <3> QED BY <1>29, <2>1, <3>1, BudgetChanges, UnmovedKeepsCredit
  <2>3. CASE k = PayLease
    <3>1. Cardinality(Spenders)' = Cardinality(Spenders)
      BY <2>1 DEF Spenders
    <3>2. Cardinality(Spenders)' <= Cardinality(Spenders)
      BY <3>1, CreditCounts DEF CountsAreNat
    <3>3. Used' <= Used + 1
      BY <2>1, <3>1, <3>2, UsedChanges
    <3> QED BY <1>29, <2>1, <2>3, <3>3, BudgetChanges, CreditKept
  <2> QED BY <2>2, <2>3
<1>30. CASE UNCHANGED vars
  BY <1>30, BudgetChanges, UnmovedKeepsCredit DEF vars
<1> QED
  BY <1>1, <1>2, <1>3, <1>4, <1>5, <1>6, <1>7, <1>8, <1>9, <1>10, <1>11, <1>12,
     <1>13, <1>14, <1>15, <1>16, <1>17, <1>18, <1>19, <1>20, <1>21, <1>22,
     <1>23, <1>24, <1>25, <1>26, <1>27, <1>28, <1>29, <1>30 DEF Next, Job

\* The inductive invariant of the payouts.
PayoutInv == Untouched /\ DoneIsCompleted /\ Unsent /\ Credit

\* It holds in every reachable state.
LEMMA PayoutInvHolds == Spec => []PayoutInv
<1>1. Init => PayoutInv
  <2> SUFFICES ASSUME Init PROVE PayoutInv
    OBVIOUS
  <2>1. \A m \in Msgs : at[m] \in {"unsent", "ready"}
    BY DEF Init
  <2>2. lease[PayLease] = "none" /\ paid = 0
    BY KeyFacts DEF Init, LeaseInit
  <2>3. Untouched
    <3>1. milestones = 0 => status = "funded"
      BY DEF Init
    <3>2. \A m \in Msgs : at[m] \notin PaySteps /\ at[m] \notin Entering
      BY <2>1 DEF PaySteps, Entering
    <3> QED BY <2>2, <3>1, <3>2 DEF Untouched
  <2>4. DoneIsCompleted
    BY <2>1, <2>2 DEF DoneIsCompleted
  <2>5. Unsent
    BY ReleaseAssumption DEF Init, Unsent
  <2>6. CountsAreNat
    BY InitTypes, CreditCounts
  <2>7. Spenders = {}
    BY <2>1 DEF Spenders, Costly
  <2>8. Cardinality(Spenders) = 0
    BY <2>7, FS_EmptySet
  <2>9. Used = 0 + 0 + OpenCount /\ OpenCount \in 0..1 /\ Budget \in Nat
    BY <2>2, <2>6, <2>8 DEF Used, CountsAreNat
  <2>10. Used <= Budget + 1
    BY <2>9
  <2> QED BY <2>3, <2>4, <2>5, <2>10 DEF PayoutInv, Credit
<1>2. IInv /\ IInv' /\ PayoutInv /\ [Next]_vars => PayoutInv'
  BY UntouchedNext, DoneIsCompletedNext, UnsentNext, CreditNext DEF PayoutInv,
     IInv
<1> QED BY <1>1, <1>2, IInvHolds, PTL DEF Spec

(* As long as one 'importer' milestone is committed for the deal, every   *)
(* payout beyond the first is explained by a failed call, a crash or an   *)
(* expired payment.distribution key, for any number of messages, retries, *)
(* requeues and replays.                                                  *)
THEOREM ExtraPayoutNeedsFaultHolds ==
  Spec => [](milestones <= 1 => ExtraPayoutNeedsFault)
<1>1. IInv /\ PayoutInv => (milestones <= 1 => ExtraPayoutNeedsFault)
  <2> SUFFICES ASSUME IInv, PayoutInv, milestones <= 1
               PROVE  paid <= 1 + failures + crashes + expiries[PayLease]
    BY DEF ExtraPayoutNeedsFault
  <2>1. CountsAreNat /\ Used <= Budget + 1
    BY CreditCounts DEF IInv, PayoutInv, Credit
  <2>2. paid <= Used
    BY <2>1 DEF Used, CountsAreNat
  <2>3. /\ failures \in Nat /\ crashes \in Nat /\ expiries[PayLease] \in Nat
        /\ paid \in Nat /\ Used \in Nat
    BY <2>1, Counts, KeyFacts DEF IInv, Types, CountsAreNat
  <2> QED BY <2>1, <2>2, <2>3 DEF Budget
<1> QED BY <1>1, IInvHolds, PayoutInvHolds, PTL

-----------------------------------------------------------------------------
(* No delivery is forgotten without a cause. *)

\* At most one milestone is committed, no key ran out under a live job, the deal
\* has investments to pay out, and no delivery has been forgotten.
Calm ==
    milestones <= 1 /\ Quiet /\ deal # "uninvested" /\ forgotten = {}

\* A message at one of these will be looked at again, by a job or an operator.
Alive == (JobSteps \ {"ack"}) \cup {"ready", "dlq"}

\* Awaits after which a job records the deal as done.
Recording == {"done deal", "done pay"}

\* Somebody has to look after the deal: it is delivered, or about to be.
Needed ==
    /\ status # "completed"
    /\ status = "delivered" \/ \E r \in Requests : request[r] = "open"

\* Somebody does: done markers, and the jobs that set them, stand for a
\* completed deal.
Waiting ==
    /\ \A k \in Keys : lease[k] = "done" => status = "completed"
    /\ \A m \in Msgs : at[m] \in Recording => status = "completed"
    /\ Needed => alerted \/ \E m \in Msgs : at[m] \in Alive

\* What the step of one message has to do to keep Waiting: it keeps the rest,
\* records only a completed deal, and does not drop the last message of a deal
\* that needs one.
CalmFrame(m) ==
    /\ at' = [at EXCEPT ![m] = at'[m]]
    /\ request' = request /\ milestones' = milestones
    /\ status' = status \/ status' = "completed"
KeyCalm(k, m) == lease'[k] = "done" => lease[k] = "done" \/ status = "completed"
RecordCalm(m) == at'[m] \in Recording => status' = "completed"
DropCalm(m) ==
    /\ alerted' = alerted \/ alerted' = TRUE
    /\ status' # "completed" =>
         \/ alerted' \/ at'[m] \in Alive \/ at[m] \notin Alive
         \/ \E n \in Msgs : n # m /\ at[n] \in Alive
CalmStep(m) ==
    CalmFrame(m) /\ (\A k \in Keys : KeyCalm(k, m)) /\ RecordCalm(m) /\ DropCalm(m)

\* Such a step keeps Waiting.
LEMMA CalmStepKeepsWaiting ==
  ASSUME Types, Waiting, NEW m \in Msgs, CalmStep(m)
  PROVE  Waiting'
<1>1. \A n \in Msgs : n # m => at'[n] = at[n]
  BY DEF Types, BrokerType, CalmStep, CalmFrame
<1>2. status = "completed" => status' = "completed"
  BY DEF CalmStep, CalmFrame
<1>3. \A k \in Keys : lease'[k] = "done" => status' = "completed"
  BY <1>2 DEF Waiting, CalmStep, KeyCalm
<1>4. \A n \in Msgs : at'[n] \in Recording => status' = "completed"
  BY <1>1, <1>2 DEF Waiting, CalmStep, RecordCalm
<1>5. Needed' => alerted' \/ \E n \in Msgs : at'[n] \in Alive
  <2> SUFFICES ASSUME Needed', ~alerted'
               PROVE  \E n \in Msgs : at'[n] \in Alive
    OBVIOUS
  <2>1. status' # "completed" /\ status' = status /\ Needed /\ ~alerted
    BY DEF Needed, CalmStep, CalmFrame, DropCalm
  <2>2. PICK n \in Msgs : at[n] \in Alive
    BY <2>1 DEF Waiting
  <2>3. \/ at'[m] \in Alive \/ at[m] \notin Alive
        \/ \E o \in Msgs : o # m /\ at[o] \in Alive
    BY <2>1 DEF CalmStep, DropCalm
  <2> QED BY <1>1, <2>2, <2>3
<1> QED BY <1>3, <1>4, <1>5 DEF Waiting

\* A job that finds deal.delivered taken leaves the deal to the holder of the
\* key, or finds it completed.
LEMMA DealTaken ==
  ASSUME Waiting, NEW m \in Msgs, at[m] \notin DealSteps, status # "completed",
         lease[DealLease] \in {"none", "processing", "done"},
         Refused(DealLease), forgotten' = {}
  PROVE  \E n \in Msgs : n # m /\ at[n] \in Alive
<1>1. lease[DealLease] = "processing"
  BY KeyFacts DEF Refused, GetTaken, Waiting
<1>2. PICK n \in Msgs : at[n] \in HolderSteps(DealLease)
  BY <1>1 DEF Refused, Forget
<1>3. HolderSteps(DealLease) = DealSteps
  BY KeyFacts DEF HolderSteps
<1> QED BY <1>2, <1>3 DEF Alive, JobSteps, DealSteps, PaySteps

\* A job that holds deal.delivered finds payment.distribution taken only when
\* the deal is completed.
LEMMA PayTaken ==
  ASSUME Waiting, Calm, Exclusive(DealLease), NEW m \in Msgs, at[m] \in Entering,
         lease[PayLease] \in {"none", "processing", "done"},
         Refused(PayLease), forgotten' = {}
  PROVE  status = "completed"
<1> SUFFICES ASSUME lease[PayLease] = "processing" PROVE FALSE
  BY KeyFacts DEF Refused, GetTaken, Waiting
<1>1. at[m] \in DealSteps /\ at[m] \notin PaySteps
  BY DEF Entering, DealSteps, PaySteps
<1>2. \A n \in Msgs : at[n] \in DealSteps => n = m
  BY <1>1, KeyFacts DEF Calm, Quiet, Exclusive, HolderSteps
<1>3. \A n \in Msgs : at[n] \notin PaySteps
  BY <1>1, <1>2 DEF DealSteps
<1> QED BY <1>3 DEF Refused, Forget, HolderSteps

\* A job that skips a deal with investments finds it completed.
LEMMA SkipCompleted ==
  ASSUME Types, Calm, NEW m \in Msgs, ReadDeal(m), forgotten' = {},
         at'[m] = "done deal"
  PROVE  status = "completed"
<1>1. status # "funded"
  BY DEF ReadDeal, Forget
<1>2. status # "delivered" \/ deal = "uninvested"
  BY DEF ReadDeal, Go, Types, BrokerType
<1> QED BY <1>1, <1>2 DEF Calm, Types, DbType

\* Every step of a message that forgets no delivery is such a step.
LEMMA MessageCalmStep ==
  ASSUME Types, Calm, Waiting, Exclusive(DealLease), forgotten' = {},
         NEW m \in Msgs,
         \/ Job(m) \/ RetryFailedPayment(m) \/ HandleDealDelivered(m)
         \/ HandleWhileStopping(m) \/ Crash(m)
         \/ HandleDeadLetter(m) \/ ReplayMessage(m)
  PROVE  CalmStep(m)
<1> USE KeyFacts DEF Types, BrokerType, db, broker, bounds
<1>1. CASE RetryFailedPayment(m)
  <2>1. CalmFrame(m)
    BY <1>1, MessageStep DEF RetryFailedPayment, CalmFrame, Step, Job
  <2>2. ASSUME NEW j \in Keys PROVE KeyCalm(j, m)
    BY <1>1 DEF RetryFailedPayment, KeyCalm
  <2>3. RecordCalm(m)
    BY <1>1 DEF RetryFailedPayment, RecordCalm, Recording
  <2>4. DropCalm(m)
    BY <1>1 DEF RetryFailedPayment, DropCalm, Alive, JobSteps, DealSteps,
       PaySteps
  <2> QED BY <2>1, <2>2, <2>3, <2>4 DEF CalmStep
<1>2. CASE HandleDealDelivered(m)
  <2>1. CalmFrame(m)
    BY <1>2, MessageStep DEF HandleDealDelivered, ParsePayload, DeadLetter, Go,
       OneMore, CalmFrame, Step, Job
  <2>2. ASSUME NEW j \in Keys PROVE KeyCalm(j, m)
    BY <1>2 DEF HandleDealDelivered, ParsePayload, DeadLetter, Go, OneMore,
       KeyCalm
  <2>3. RecordCalm(m)
    BY <1>2 DEF HandleDealDelivered, ParsePayload, DeadLetter, Go, OneMore,
       RecordCalm, Recording
  <2>4. DropCalm(m)
    BY <1>2 DEF HandleDealDelivered, ParsePayload, DeadLetter, Go, OneMore,
       DropCalm, Alive, JobSteps, DealSteps, PaySteps
  <2> QED BY <2>1, <2>2, <2>3, <2>4 DEF CalmStep
<1>3. CASE HandleWhileStopping(m)
  <2>1. CalmFrame(m)
    BY <1>3, MessageStep DEF HandleWhileStopping, Requeue, OneMore, CalmFrame,
       Step, Job
  <2>2. ASSUME NEW j \in Keys PROVE KeyCalm(j, m)
    BY <1>3 DEF HandleWhileStopping, Requeue, OneMore, KeyCalm
  <2>3. RecordCalm(m)
    BY <1>3 DEF HandleWhileStopping, Requeue, OneMore, RecordCalm, Recording
  <2>4. DropCalm(m)
    BY <1>3 DEF HandleWhileStopping, Requeue, OneMore, DropCalm, Alive,
       JobSteps, DealSteps, PaySteps
  <2> QED BY <2>1, <2>2, <2>3, <2>4 DEF CalmStep
<1>4. CASE GetDealLease(m)
  <2>1. CalmFrame(m)
    BY <1>4, MessageStep DEF GetDealLease, GetFree, Refused, Forget, GetTaken,
       Go, CalmFrame, Step, Job
  <2>2. ASSUME NEW j \in Keys PROVE KeyCalm(j, m)
    BY <1>4 DEF GetDealLease, GetFree, Refused, Forget, GetTaken, Go, KeyCalm
  <2>3. RecordCalm(m)
    BY <1>4 DEF GetDealLease, GetFree, Refused, Forget, GetTaken, Go,
       RecordCalm, Recording
  <2>4. DropCalm(m)
    BY <1>4, DealTaken DEF GetDealLease, GetFree, Refused, Forget, GetTaken,
       Go, DropCalm, Alive, JobSteps, DealSteps, PaySteps
  <2> QED BY <2>1, <2>2, <2>3, <2>4 DEF CalmStep
<1>5. CASE SetDealLease(m)
  <2>1. CalmFrame(m)
    BY <1>5, MessageStep DEF SetDealLease, SetNX, Refused, Forget, GetTaken,
       Go, CalmFrame, Step, Job
  <2>2. ASSUME NEW j \in Keys PROVE KeyCalm(j, m)
    BY <1>5 DEF SetDealLease, SetNX, Refused, Forget, GetTaken, Go, KeyCalm
  <2>3. RecordCalm(m)
    BY <1>5 DEF SetDealLease, SetNX, Refused, Forget, GetTaken, Go, RecordCalm,
       Recording
  <2>4. DropCalm(m)
    BY <1>5, DealTaken DEF SetDealLease, SetNX, Refused, Forget, GetTaken, Go,
       DropCalm, Alive, JobSteps, DealSteps, PaySteps
  <2> QED BY <2>1, <2>2, <2>3, <2>4 DEF CalmStep
<1>6. CASE ReadDeal(m)
  <2>1. CalmFrame(m)
    BY <1>6, MessageStep DEF ReadDeal, Forget, Go, CalmFrame, Step, Job
  <2>2. ASSUME NEW j \in Keys PROVE KeyCalm(j, m)
    BY <1>6 DEF ReadDeal, Forget, Go, KeyCalm
  <2>3. RecordCalm(m)
    BY <1>6, SkipCompleted DEF ReadDeal, Forget, Go, RecordCalm, Recording
  <2>4. DropCalm(m)
    BY <1>6 DEF ReadDeal, Forget, Go, DropCalm, Alive, JobSteps, DealSteps,
       PaySteps
  <2> QED BY <2>1, <2>2, <2>3, <2>4 DEF CalmStep
<1>7. CASE GetPayLease(m)
  <2>1. CalmFrame(m)
    BY <1>7, MessageStep DEF GetPayLease, GetFree, Refused, Forget, GetTaken,
       Go, CalmFrame, Step, Job
  <2>2. ASSUME NEW j \in Keys PROVE KeyCalm(j, m)
    BY <1>7 DEF GetPayLease, GetFree, Refused, Forget, GetTaken, Go, KeyCalm
  <2>3. RecordCalm(m)
    BY <1>7, PayTaken DEF GetPayLease, GetFree, Refused, Forget, GetTaken, Go,
       RecordCalm, Recording, Entering
  <2>4. DropCalm(m)
    BY <1>7 DEF GetPayLease, GetFree, Refused, Forget, GetTaken, Go, DropCalm,
       Alive, JobSteps, DealSteps, PaySteps
  <2> QED BY <2>1, <2>2, <2>3, <2>4 DEF CalmStep
<1>8. CASE SetPayLease(m)
  <2>1. CalmFrame(m)
    BY <1>8, MessageStep DEF SetPayLease, SetNX, Refused, Forget, GetTaken, Go,
       CalmFrame, Step, Job
  <2>2. ASSUME NEW j \in Keys PROVE KeyCalm(j, m)
    BY <1>8 DEF SetPayLease, SetNX, Refused, Forget, GetTaken, Go, KeyCalm
  <2>3. RecordCalm(m)
    BY <1>8, PayTaken DEF SetPayLease, SetNX, Refused, Forget, GetTaken, Go,
       RecordCalm, Recording, Entering
  <2>4. DropCalm(m)
    BY <1>8 DEF SetPayLease, SetNX, Refused, Forget, GetTaken, Go, DropCalm,
       Alive, JobSteps, DealSteps, PaySteps
  <2> QED BY <2>1, <2>2, <2>3, <2>4 DEF CalmStep
<1>9. CASE ReleaseEscrow(m)
  <2>1. CalmFrame(m)
    BY <1>9, MessageStep DEF ReleaseEscrow, Go, CalmFrame, Step, Job
  <2>2. ASSUME NEW j \in Keys PROVE KeyCalm(j, m)
    BY <1>9 DEF ReleaseEscrow, Go, KeyCalm
  <2>3. RecordCalm(m)
    BY <1>9 DEF ReleaseEscrow, Go, RecordCalm, Recording
  <2>4. DropCalm(m)
    BY <1>9 DEF ReleaseEscrow, Go, DropCalm, Alive, JobSteps, DealSteps,
       PaySteps
  <2> QED BY <2>1, <2>2, <2>3, <2>4 DEF CalmStep
<1>10. CASE ReleaseRefused(m)
  <2>1. CalmFrame(m)
    BY <1>10, MessageStep DEF ReleaseRefused, Go, CalmFrame, Step, Job
  <2>2. ASSUME NEW j \in Keys PROVE KeyCalm(j, m)
    BY <1>10 DEF ReleaseRefused, Go, KeyCalm
  <2>3. RecordCalm(m)
    BY <1>10 DEF ReleaseRefused, Go, RecordCalm, Recording
  <2>4. DropCalm(m)
    BY <1>10 DEF ReleaseRefused, Go, DropCalm, Alive, JobSteps, DealSteps,
       PaySteps
  <2> QED BY <2>1, <2>2, <2>3, <2>4 DEF CalmStep
<1>11. CASE ReleaseThrows(m)
  <2>1. CalmFrame(m)
    BY <1>11, MessageStep DEF ReleaseThrows, Fault, Go, CalmFrame, Step, Job
  <2>2. ASSUME NEW j \in Keys PROVE KeyCalm(j, m)
    BY <1>11 DEF ReleaseThrows, Fault, Go, KeyCalm
  <2>3. RecordCalm(m)
    BY <1>11 DEF ReleaseThrows, Fault, Go, RecordCalm, Recording
  <2>4. DropCalm(m)
    BY <1>11 DEF ReleaseThrows, Fault, Go, DropCalm, Alive, JobSteps,
       DealSteps, PaySteps
  <2> QED BY <2>1, <2>2, <2>3, <2>4 DEF CalmStep
<1>12. CASE CommitPayout(m)
  <2>1. CalmFrame(m)
    BY <1>12, MessageStep DEF CommitPayout, Go, CalmFrame, Step, Job
  <2>2. ASSUME NEW j \in Keys PROVE KeyCalm(j, m)
    BY <1>12 DEF CommitPayout, Go, KeyCalm
  <2>3. RecordCalm(m)
    BY <1>12 DEF CommitPayout, Go, RecordCalm, Recording
  <2>4. DropCalm(m)
    BY <1>12 DEF CommitPayout, Go, DropCalm, Alive, JobSteps, DealSteps,
       PaySteps
  <2> QED BY <2>1, <2>2, <2>3, <2>4 DEF CalmStep
<1>13. CASE RollbackPayout(m)
  <2>1. CalmFrame(m)
    BY <1>13, MessageStep DEF RollbackPayout, Fault, Go, CalmFrame, Step, Job
  <2>2. ASSUME NEW j \in Keys PROVE KeyCalm(j, m)
    BY <1>13 DEF RollbackPayout, Fault, Go, KeyCalm
  <2>3. RecordCalm(m)
    BY <1>13 DEF RollbackPayout, Fault, Go, RecordCalm, Recording
  <2>4. DropCalm(m)
    BY <1>13 DEF RollbackPayout, Fault, Go, DropCalm, Alive, JobSteps,
       DealSteps, PaySteps
  <2> QED BY <2>1, <2>2, <2>3, <2>4 DEF CalmStep
<1>14. CASE HandleEscrowFailure(m)
  <2>1. CalmFrame(m)
    BY <1>14, MessageStep DEF HandleEscrowFailure, Fault, Go, CalmFrame, Step,
       Job
  <2>2. ASSUME NEW j \in Keys PROVE KeyCalm(j, m)
    BY <1>14 DEF HandleEscrowFailure, Fault, Go, KeyCalm
  <2>3. RecordCalm(m)
    BY <1>14 DEF HandleEscrowFailure, Fault, Go, RecordCalm, Recording
  <2>4. DropCalm(m)
    BY <1>14 DEF HandleEscrowFailure, Fault, Go, DropCalm, Alive, JobSteps,
       DealSteps, PaySteps
  <2> QED BY <2>1, <2>2, <2>3, <2>4 DEF CalmStep
<1>15. CASE MarkPayDone(m)
  <2>0. status = "completed"
    BY <1>15 DEF MarkPayDone, Waiting, Recording
  <2>1. CalmFrame(m)
    BY <1>15, MessageStep DEF MarkPayDone, MarkDone, Go, CalmFrame, Step, Job
  <2>2. ASSUME NEW j \in Keys PROVE KeyCalm(j, m)
    BY <1>15, <2>0 DEF MarkPayDone, MarkDone, Go, KeyCalm
  <2>3. RecordCalm(m)
    BY <1>15, <2>0 DEF MarkPayDone, MarkDone, Go, RecordCalm, Recording
  <2>4. DropCalm(m)
    BY <1>15, <2>0 DEF MarkPayDone, MarkDone, Go, DropCalm, Alive, JobSteps,
       DealSteps, PaySteps
  <2> QED BY <2>1, <2>2, <2>3, <2>4 DEF CalmStep
<1>16. CASE ReleasePayLease(m)
  <2>1. CalmFrame(m)
    BY <1>16, MessageStep DEF ReleasePayLease, GetProcessing, GetOther, Del,
       Go, CalmFrame, Step, Job
  <2>2. ASSUME NEW j \in Keys PROVE KeyCalm(j, m)
    BY <1>16 DEF ReleasePayLease, GetProcessing, GetOther, Del, Go, KeyCalm
  <2>3. RecordCalm(m)
    BY <1>16 DEF ReleasePayLease, GetProcessing, GetOther, Del, Go, RecordCalm,
       Recording
  <2>4. DropCalm(m)
    BY <1>16 DEF ReleasePayLease, GetProcessing, GetOther, Del, Go, DropCalm,
       Alive, JobSteps, DealSteps, PaySteps
  <2> QED BY <2>1, <2>2, <2>3, <2>4 DEF CalmStep
<1>17. CASE MarkDealDone(m)
  <2>0. status = "completed"
    BY <1>17 DEF MarkDealDone, Waiting, Recording
  <2>1. CalmFrame(m)
    BY <1>17, MessageStep DEF MarkDealDone, MarkDone, Go, CalmFrame, Step, Job
  <2>2. ASSUME NEW j \in Keys PROVE KeyCalm(j, m)
    BY <1>17, <2>0 DEF MarkDealDone, MarkDone, Go, KeyCalm
  <2>3. RecordCalm(m)
    BY <1>17, <2>0 DEF MarkDealDone, MarkDone, Go, RecordCalm, Recording
  <2>4. DropCalm(m)
    BY <1>17, <2>0 DEF MarkDealDone, MarkDone, Go, DropCalm, Alive, JobSteps,
       DealSteps, PaySteps
  <2> QED BY <2>1, <2>2, <2>3, <2>4 DEF CalmStep
<1>18. CASE Ack(m)
  <2>1. CalmFrame(m)
    BY <1>18, MessageStep DEF Ack, Go, CalmFrame, Step, Job
  <2>2. ASSUME NEW j \in Keys PROVE KeyCalm(j, m)
    BY <1>18 DEF Ack, Go, KeyCalm
  <2>3. RecordCalm(m)
    BY <1>18 DEF Ack, Go, RecordCalm, Recording
  <2>4. DropCalm(m)
    BY <1>18 DEF Ack, Go, DropCalm, Alive, JobSteps, DealSteps, PaySteps
  <2> QED BY <2>1, <2>2, <2>3, <2>4 DEF CalmStep
<1>19. CASE ReleaseDealLease(m)
  <2>1. CalmFrame(m)
    BY <1>19, MessageStep DEF ReleaseDealLease, GetProcessing, GetOther, Del,
       Go, CalmFrame, Step, Job
  <2>2. ASSUME NEW j \in Keys PROVE KeyCalm(j, m)
    BY <1>19 DEF ReleaseDealLease, GetProcessing, GetOther, Del, Go, KeyCalm
  <2>3. RecordCalm(m)
    BY <1>19 DEF ReleaseDealLease, GetProcessing, GetOther, Del, Go,
       RecordCalm, Recording
  <2>4. DropCalm(m)
    BY <1>19 DEF ReleaseDealLease, GetProcessing, GetOther, Del, Go, DropCalm,
       Alive, JobSteps, DealSteps, PaySteps
  <2> QED BY <2>1, <2>2, <2>3, <2>4 DEF CalmStep
<1>20. CASE Nack(m)
  <2>1. CalmFrame(m)
    BY <1>20, MessageStep DEF Nack, DeadLetter, Requeue, OneMore, CalmFrame,
       Step, Job
  <2>2. ASSUME NEW j \in Keys PROVE KeyCalm(j, m)
    BY <1>20 DEF Nack, DeadLetter, Requeue, OneMore, KeyCalm
  <2>3. RecordCalm(m)
    BY <1>20 DEF Nack, DeadLetter, Requeue, OneMore, RecordCalm, Recording
  <2>4. DropCalm(m)
    BY <1>20 DEF Nack, DeadLetter, Requeue, OneMore, DropCalm, Alive, JobSteps,
       DealSteps, PaySteps
  <2> QED BY <2>1, <2>2, <2>3, <2>4 DEF CalmStep
<1>21. CASE HandleDeadLetter(m)
  <2>1. CalmFrame(m)
    BY <1>21, MessageStep DEF HandleDeadLetter, Go, CalmFrame, Step, Job
  <2>2. ASSUME NEW j \in Keys PROVE KeyCalm(j, m)
    BY <1>21 DEF HandleDeadLetter, Go, KeyCalm
  <2>3. RecordCalm(m)
    BY <1>21 DEF HandleDeadLetter, Go, RecordCalm, Recording
  <2>4. DropCalm(m)
    BY <1>21 DEF HandleDeadLetter, Go, DropCalm, Alive, JobSteps, DealSteps,
       PaySteps
  <2> QED BY <2>1, <2>2, <2>3, <2>4 DEF CalmStep
<1>22. CASE ReplayMessage(m)
  <2>1. CalmFrame(m)
    BY <1>22, MessageStep DEF ReplayMessage, Go, CalmFrame, Step, Job
  <2>2. ASSUME NEW j \in Keys PROVE KeyCalm(j, m)
    BY <1>22 DEF ReplayMessage, Go, KeyCalm
  <2>3. RecordCalm(m)
    BY <1>22 DEF ReplayMessage, Go, RecordCalm, Recording
  <2>4. DropCalm(m)
    BY <1>22 DEF ReplayMessage, Go, DropCalm, Alive, JobSteps, DealSteps,
       PaySteps
  <2> QED BY <2>1, <2>2, <2>3, <2>4 DEF CalmStep
<1>23. CASE Crash(m)
  <2>1. CalmFrame(m)
    BY <1>23, MessageStep DEF Crash, Go, CalmFrame, Step
  <2>2. ASSUME NEW j \in Keys PROVE KeyCalm(j, m)
    BY <1>23 DEF Crash, Go, KeyCalm
  <2>3. RecordCalm(m)
    BY <1>23 DEF Crash, Go, RecordCalm, Recording
  <2>4. DropCalm(m)
    BY <1>23 DEF Crash, Go, DropCalm, Alive
  <2> QED BY <2>1, <2>2, <2>3, <2>4 DEF CalmStep
<1> QED BY <1>1, <1>2, <1>3, <1>4, <1>5, <1>6, <1>7, <1>8, <1>9, <1>10, <1>11,
           <1>12, <1>13, <1>14, <1>15, <1>16, <1>17, <1>18, <1>19, <1>20,
           <1>21, <1>22, <1>23 DEF Job

\* The step of a message keeps what Calm speaks of, but for what it forgets.
LEMMA MessageFrame ==
  ASSUME NEW m \in Msgs,
         \/ Job(m) \/ RetryFailedPayment(m) \/ HandleDealDelivered(m)
         \/ HandleWhileStopping(m) \/ Crash(m)
         \/ HandleDeadLetter(m) \/ ReplayMessage(m)
  PROVE  milestones' = milestones /\ deal' = deal /\ forgotten \subseteq forgotten'
<1>1. ASSUME NEW k, Refused(k) PROVE forgotten \subseteq forgotten'
  BY <1>1 DEF Refused, Forget
<1>2. CASE GetDealLease(m)
  BY <1>1, <1>2 DEF GetDealLease, bounds, db
<1>3. CASE SetDealLease(m)
  BY <1>1, <1>3 DEF SetDealLease, bounds, db
<1>4. CASE GetPayLease(m)
  BY <1>1, <1>4 DEF GetPayLease, bounds, db
<1>5. CASE SetPayLease(m)
  BY <1>1, <1>5 DEF SetPayLease, bounds, db
<1>6. CASE ReadDeal(m)
  BY <1>6 DEF ReadDeal, Forget, db
<1>7. CASE \/ ReleaseEscrow(m) \/ ReleaseRefused(m) \/ ReleaseThrows(m)
           \/ CommitPayout(m) \/ RollbackPayout(m) \/ HandleEscrowFailure(m)
           \/ MarkPayDone(m) \/ ReleasePayLease(m) \/ MarkDealDone(m) \/ Ack(m)
           \/ ReleaseDealLease(m) \/ Nack(m)
           \/ RetryFailedPayment(m) \/ HandleDealDelivered(m)
           \/ HandleWhileStopping(m) \/ Crash(m) \/ HandleDeadLetter(m)
           \/ ReplayMessage(m)
  BY <1>7 DEF ReleaseEscrow, ReleaseRefused, ReleaseThrows, CommitPayout,
              RollbackPayout, HandleEscrowFailure, MarkPayDone, ReleasePayLease,
              MarkDealDone, Ack, ReleaseDealLease, Nack, RetryFailedPayment,
              HandleDealDelivered, HandleWhileStopping, Crash, HandleDeadLetter,
              ReplayMessage, Fault, bounds, db
<1> QED BY <1>2, <1>3, <1>4, <1>5, <1>6, <1>7 DEF Job

\* Every step of a calm release that stays calm keeps Waiting.
LEMMA WaitingNext ==
  ASSUME IInv, Untouched, Calm => Waiting, [Next]_vars
  PROVE  Calm' => Waiting'
<1> SUFFICES ASSUME Calm' PROVE Waiting'
  OBVIOUS
<1>1. ASSUME NEW m \in Msgs,
             \/ Job(m) \/ RetryFailedPayment(m) \/ HandleDealDelivered(m)
             \/ HandleWhileStopping(m) \/ Crash(m)
             \/ HandleDeadLetter(m) \/ ReplayMessage(m)
      PROVE  Waiting'
  <2>1. expiries' = expiries
    BY <1>1, MessageStep DEF Step, IInv
  <2>2. Calm /\ forgotten' = {}
    BY <1>1, <2>1, MessageFrame DEF Calm, Quiet
  <2>3. CalmStep(m)
    BY <1>1, <2>2, MessageCalmStep DEF IInv
  <2> QED BY <2>2, <2>3, CalmStepKeepsWaiting DEF IInv
<1>2. ASSUME NEW m \in Requests, CheckMilestone(m) \/ RollbackMilestone(m)
      PROVE  Waiting'
  <2>1. /\ UNCHANGED <<lease, deal, status, milestones, at, alerted, expiries,
                       forgotten>>
        /\ \A r \in Requests : request'[r] = "open" => request[r] = "open"
    BY <1>2 DEF CheckMilestone, RollbackMilestone, Fault, broker, bounds, IInv,
                Types, DbType
  <2>2. Calm
    BY <2>1 DEF Calm, Quiet
  <2>3. Needed' => Needed
    BY <2>1 DEF Needed
  <2> QED BY <2>1, <2>2, <2>3 DEF Waiting
<1>3. ASSUME NEW m \in Requests, CommitMilestone(m) PROVE Waiting'
  <2>1. /\ UNCHANGED <<lease, deal, at, alerted, expiries, forgotten>>
        /\ status' = "delivered" /\ request[m] = "open"
    BY <1>3 DEF CommitMilestone, broker, bounds
  <2>2. milestones = 0
    BY <1>3, MilestoneCounts DEF Calm, IInv, Types, DbType
  <2>3. Calm /\ status = "funded"
    BY <2>1, <2>2 DEF Calm, Quiet, Untouched
  <2>4. Needed
    BY <2>1, <2>3 DEF Needed
  <2> QED BY <2>1, <2>3, <2>4 DEF Waiting
<1>4. ASSUME NEW m \in Requests, NEW sent \in BOOLEAN, UpdateMilestone(m, sent)
      PROVE  Waiting'
  <2>1. sent
    BY <1>4 DEF UpdateMilestone, Calm
  <2>2. /\ UNCHANGED <<lease, deal, status, milestones, alerted, expiries,
                       forgotten>>
        /\ at' = [at EXCEPT ![m] = "ready"] /\ m \in Msgs
    BY <1>4, <2>1, ReleaseAssumption DEF UpdateMilestone, bounds
  <2>3. Calm
    BY <2>2 DEF Calm, Quiet
  <2>4. at'[m] = "ready" /\ \A n \in Msgs : n # m => at'[n] = at[n]
    BY <2>2 DEF IInv, Types, BrokerType
  <2>5. "ready" \in Alive /\ "ready" \notin Recording
    BY DEF Alive, Recording
  <2> QED BY <2>2, <2>3, <2>4, <2>5 DEF Waiting
<1>5. ASSUME NEW k \in Keys, ExpireUnused(k) PROVE Waiting'
  <2>1. /\ UNCHANGED <<deal, status, request, milestones, at, alerted, expiries,
                       forgotten>>
        /\ lease' = [lease EXCEPT ![k] = "none"]
    BY <1>5 DEF ExpireUnused, Expire, Del, db, broker, bounds
  <2>2. \A j \in Keys : lease'[j] = lease[j] \/ lease'[j] = "none"
    BY <2>1 DEF IInv, Types, BrokerType
  <2>3. Calm
    BY <2>1 DEF Calm, Quiet
  <2>4. Needed' => Needed
    BY <2>1 DEF Needed
  <2> QED BY <2>1, <2>2, <2>3, <2>4 DEF Waiting
<1>6. ASSUME NEW k \in Keys, ExpireInUse(k) PROVE ~Calm'
  BY <1>6, ExpiryCounts DEF Calm, Quiet, IInv, Types
<1>7. CASE UNCHANGED vars
  <2>1. UNCHANGED <<deal, status, request, milestones, at, alerted, expiries,
                    forgotten, lease>>
    BY <1>7 DEF vars, db, broker, bounds
  <2>2. Calm /\ (Needed' => Needed)
    BY <2>1 DEF Calm, Quiet, Needed
  <2> QED BY <2>1, <2>2 DEF Waiting
<1> QED BY <1>1, <1>2, <1>3, <1>4, <1>5, <1>6, <1>7 DEF Next

(* While at most one 'importer' milestone is committed and no key runs out *)
(* under a live job, a delivered deal with investments is left without a   *)
(* message, a job or an alert only if its message was never published, was *)
(* consumed before the milestone committed, or met the key of a dead job:  *)
(* for any number of requests, messages, crashes, failing calls, requeues, *)
(* dead letters and replays.                                               *)
THEOREM LossNeedsCauseHolds ==
  Spec => [](milestones <= 1 => LossNeedsCause)
<1>1. Init => (Calm => Waiting)
  <2> SUFFICES ASSUME Init PROVE Waiting
    OBVIOUS
  <2>1. \A m \in Msgs : at[m] \in {"unsent", "ready"}
    BY DEF Init
  <2>2. \A k \in Keys : lease[k] = "none"
    BY DEF Init, LeaseInit
  <2>3. Needed => \E m \in Msgs : at[m] \in Alive
    <3> SUFFICES ASSUME Needed PROVE \E m \in Msgs : at[m] = "ready"
      BY DEF Alive
    <3>1. Requests = {}
      BY DEF Init, Needed
    <3> QED BY <3>1 DEF Init
  <2> QED BY <2>1, <2>2, <2>3 DEF Waiting, Recording
<1>2. IInv /\ PayoutInv /\ (Calm => Waiting) /\ [Next]_vars => (Calm => Waiting)'
  BY WaitingNext DEF PayoutInv
<1>3. (Calm => Waiting) => (milestones <= 1 => LossNeedsCause)
  <2> SUFFICES ASSUME Calm => Waiting, milestones <= 1, Stranded,
                      deal # "uninvested", Quiet, forgotten = {}
               PROVE  FALSE
    BY DEF LossNeedsCause, Quiet
  <2>1. Waiting /\ Needed
    BY DEF Calm, Needed, Stranded
  <2>2. PICK m \in Msgs : at[m] \in Alive
    BY <2>1 DEF Waiting, Stranded
  <2> QED BY <2>2 DEF Stranded, Alive, JobSteps, DealSteps, PaySteps
<1> QED BY <1>1, <1>2, <1>3, IInvHolds, PayoutInvHolds, PTL DEF Spec
=============================================================================
