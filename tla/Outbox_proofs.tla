---------------------------- MODULE Outbox_proofs ----------------------------
(***************************************************************************)
(* The safety of the outbox for any number of events, workers, retries and *)
(* faults.  The invariant adds to the properties what makes them           *)
(* inductive: the rows have distinct created_at, so processEvent works on  *)
(* one row at a time, and a claimed row owes its worker at most one copy   *)
(* per fault until the emit of the current tick.  From it every step is    *)
(* shown to be one of OutboxDelivery.                                      *)
(***************************************************************************)
EXTENDS Outbox, TLAPS

\* Inserted rows carry distinct values of created_at, none in the future.
Dated ==
  /\ \A e \in Events : created[e] <= clock
  /\ \A e \in Events : tx[e] # "none" => created[e] > 0
  /\ \A d, e \in Events : created[d] = created[e] /\ created[d] > 0 => d = e

\* Only committed rows are claimed.
ClaimedCommitted == \A w \in Workers : \A e \in batch[w] : tx[e] = "committed"

\* Worker w has sent row e and has yet to mark it.
Unmarked(w, e) == at[w] = "mark" /\ Current(w, e)

UnmarkedWasSent == \A w \in Workers, e \in Events : Unmarked(w, e) => sent[w][e] > 0

\* What worker w sent of row e was paid for by a fault, unless the row is
\* processed or about to be marked.
Quota ==
  \A w \in Workers, e \in Events :
    sent[w][e] <= faults \/ e \in processed \/ Unmarked(w, e)

\* A claimed row has its copy of this tick ahead of it, or is being marked.
BatchQuota ==
  \A w \in Workers : \A e \in batch[w] : sent[w][e] <= faults \/ Unmarked(w, e)

SentInv == Dated /\ ClaimedCommitted /\ SentWasCommitted /\ UnmarkedWasSent /\ ProcessedWasSent
CopyInv == Quota /\ BatchQuota /\ OncePerWorker
IInv == TypeOK /\ SentInv /\ CopyInv

\* The variables of the outbox keep their types; retry_count never goes
\* below zero and no bound on faults is overrun.
THEOREM TypeCorrect == Spec => []TypeOK
<1> USE OutboxAssumption
<1>1. Init => TypeOK
  BY DEF Init, TypeOK, Places
<1>2. TypeOK /\ [Next]_vars => TypeOK'
  <2> SUFFICES ASSUME TypeOK, [Next]_vars PROVE TypeOK'
    OBVIOUS
  <2>1. ASSUME NEW e \in Events, WriteEvent(e) PROVE TypeOK'
    BY <2>1 DEF TypeOK, WriteEvent
  <2>2. ASSUME NEW e \in Events, NEW outcome \in {"committed", "aborted"}, EndTransaction(e, outcome)
        PROVE TypeOK'
    BY <2>2 DEF TypeOK, EndTransaction
  <2>3. ASSUME NEW w \in Workers, PublishPending(w) PROVE TypeOK'
    <3>1. PICK claimed \in {Oldest(Pending \ UNION {Selected(v) : v \in Workers}, BatchSize)} :
             batch' = [batch EXCEPT ![w] = claimed]
      BY <2>3 DEF PublishPending
    <3>2. claimed \in SUBSET Events
      BY DEF Oldest, Pending
    <3>3. batch' \in [Workers -> SUBSET Events]
      BY <3>1, <3>2 DEF TypeOK
    <3>4. at' \in [Workers -> Places]
      BY <2>3 DEF TypeOK, PublishPending, Places
    <3> QED BY <2>3, <3>3, <3>4 DEF TypeOK, PublishPending, rows
  <2>4. ASSUME NEW w \in Workers, CommitClaim(w) PROVE TypeOK'
    BY <2>4 DEF TypeOK, CommitClaim, Places, rows
  <2>5. ASSUME NEW w \in Workers, Crash(w) PROVE TypeOK'
    BY <2>5 DEF TypeOK, Crash, EndTick, Fault, Places, rows
  <2>6. ASSUME NEW w \in Workers, NEW e \in Events, Emit(w, e) PROVE TypeOK'
    BY <2>6 DEF TypeOK, Emit, Send, Places, rows
  <2>7. ASSUME NEW w \in Workers, NEW e \in Events, EmitThrows(w, e) PROVE TypeOK'
    BY <2>7 DEF TypeOK, EmitThrows, Places, rows
  <2>8. ASSUME NEW w \in Workers, NEW e \in Events, EmitUnconfirmed(w, e) PROVE TypeOK'
    BY <2>8 DEF TypeOK, EmitUnconfirmed, Send, Fault, Places, rows
  <2>9. ASSUME NEW w \in Workers, NEW e \in Events, MarkProcessed(w, e) PROVE TypeOK'
    BY <2>9 DEF TypeOK, MarkProcessed, NextEvent, Places, rows
  <2>10. ASSUME NEW w \in Workers, NEW e \in Events, MarkProcessedThrows(w, e) PROVE TypeOK'
    BY <2>10 DEF TypeOK, MarkProcessedThrows, Fault, Places, rows
  <2>11. ASSUME NEW w \in Workers, NEW e \in Events, MarkFailed(w, e) PROVE TypeOK'
    BY <2>11 DEF TypeOK, MarkFailed, NextEvent, Places, rows
  <2>12. ASSUME NEW w \in Workers, NEW e \in Events, MarkFailedThrows(w, e) PROVE TypeOK'
    BY <2>12 DEF TypeOK, MarkFailedThrows, EndTick, Fault, Places, rows
  <2>13. CASE UNCHANGED vars
    BY <2>13 DEF TypeOK, vars
  <2> QED
    BY <2>1, <2>2, <2>3, <2>4, <2>5, <2>6, <2>7, <2>8, <2>9, <2>10, <2>11, <2>12, <2>13 DEF Next
<1> QED BY <1>1, <1>2, PTL DEF Spec

\* processEvent works on one row: two current rows of a worker are the same.
LEMMA OneCurrent ==
  ASSUME TypeOK, Dated, ClaimedCommitted,
         NEW w \in Workers, NEW d \in Events, NEW e \in Events, Current(w, d), Current(w, e)
  PROVE  d = e
<1>1. created[d] <= created[e] /\ created[e] <= created[d]
  BY DEF Current
<1>2. created[d] > 0 /\ created[d] \in Nat /\ created[e] \in Nat
  BY DEF Current, ClaimedCommitted, Dated, TypeOK
<1>3. created[d] = created[e]
  BY <1>1, <1>2
<1> QED BY <1>2, <1>3 DEF Dated

\* What PublishPending claims is committed and not processed.
LEMMA ClaimIsPending ==
  ASSUME NEW w \in Workers, PublishPending(w), TypeOK
  PROVE  \E claimed \in SUBSET Events :
           /\ batch' = [batch EXCEPT ![w] = claimed]
           /\ \A e \in claimed : tx[e] = "committed" /\ e \notin processed
<1>1. PICK claimed \in {Oldest(Pending \ UNION {Selected(v) : v \in Workers}, BatchSize)} :
         batch' = [batch EXCEPT ![w] = claimed]
  BY DEF PublishPending
<1>2. claimed \subseteq Pending
  BY DEF Oldest
<1> QED BY <1>1, <1>2 DEF Pending

\* A step that leaves the rows alone keeps created_at distinct and what is
\* current in a batch that does not change.
LEMMA CurrentKept ==
  ASSUME UNCHANGED rows, NEW v \in Workers, batch'[v] = batch[v], NEW d \in Events
  PROVE  Current(v, d)' <=> Current(v, d)
BY DEF Current, rows

LEMMA SentStep == IInv /\ [Next]_vars => SentInv'
<1> SUFFICES ASSUME IInv, [Next]_vars PROVE SentInv'
  OBVIOUS
<1> USE DEF IInv
<1>1. ASSUME NEW e \in Events, WriteEvent(e) PROVE SentInv'
  <2>1. Dated'
    BY <1>1 DEF SentInv, Dated, TypeOK, WriteEvent
  <2>2. \A w \in Workers : e \notin batch[w]
    BY <1>1 DEF SentInv, ClaimedCommitted, WriteEvent
  <2>3. \A w \in Workers, d \in Events : Current(w, d)' => Current(w, d)
    BY <1>1, <2>2 DEF Current, WriteEvent, TypeOK
  <2>4. ClaimedCommitted' /\ SentWasCommitted'
    BY <1>1 DEF SentInv, ClaimedCommitted, SentWasCommitted, WriteEvent, TypeOK
  <2>5. UnmarkedWasSent' /\ ProcessedWasSent'
    BY <1>1, <2>3 DEF SentInv, UnmarkedWasSent, Unmarked, ProcessedWasSent, WriteEvent
  <2> QED BY <2>1, <2>4, <2>5 DEF SentInv
<1>2. ASSUME NEW e \in Events, NEW outcome \in {"committed", "aborted"}, EndTransaction(e, outcome)
      PROVE SentInv'
  <2>1. Dated'
    BY <1>2 DEF SentInv, Dated, TypeOK, EndTransaction
  <2>2. ClaimedCommitted' /\ SentWasCommitted'
    BY <1>2 DEF SentInv, ClaimedCommitted, SentWasCommitted, EndTransaction, TypeOK
  <2>3. UnmarkedWasSent' /\ ProcessedWasSent'
    BY <1>2 DEF SentInv, UnmarkedWasSent, Unmarked, Current, ProcessedWasSent, EndTransaction
  <2> QED BY <2>1, <2>2, <2>3 DEF SentInv
<1>3. ASSUME NEW w \in Workers, PublishPending(w) PROVE SentInv'
  <2>1. Dated' /\ SentWasCommitted' /\ ProcessedWasSent'
    BY <1>3 DEF SentInv, Dated, SentWasCommitted, ProcessedWasSent, PublishPending, rows
  <2>2. ClaimedCommitted'
    BY <1>3, ClaimIsPending DEF SentInv, ClaimedCommitted, PublishPending, rows, TypeOK
  <2>3. UnmarkedWasSent'
    BY <1>3, CurrentKept DEF SentInv, UnmarkedWasSent, Unmarked, PublishPending, TypeOK
  <2> QED BY <2>1, <2>2, <2>3 DEF SentInv
<1>4. ASSUME NEW w \in Workers, CommitClaim(w) PROVE SentInv'
  <2>1. Dated' /\ ClaimedCommitted'
    BY <1>4 DEF SentInv, Dated, ClaimedCommitted, TypeOK, CommitClaim, rows
  <2>2. SentWasCommitted'
    BY <1>4 DEF SentInv, SentWasCommitted, CommitClaim, rows
  <2>3. UnmarkedWasSent'
    BY <1>4, CurrentKept DEF SentInv, UnmarkedWasSent, Unmarked, TypeOK, CommitClaim, rows
  <2>4. ProcessedWasSent'
    BY <1>4 DEF SentInv, ProcessedWasSent, CommitClaim, rows
  <2> QED BY <2>1, <2>2, <2>3, <2>4 DEF SentInv
<1>5. ASSUME NEW w \in Workers, Crash(w) PROVE SentInv'
  <2>1. Dated' /\ ClaimedCommitted'
    BY <1>5 DEF SentInv, Dated, ClaimedCommitted, TypeOK, Crash, EndTick, Fault, rows
  <2>2. SentWasCommitted'
    BY <1>5 DEF SentInv, SentWasCommitted, Crash, EndTick, Fault, rows
  <2>3. UnmarkedWasSent'
    BY <1>5, CurrentKept DEF SentInv, UnmarkedWasSent, Unmarked, TypeOK, Crash, EndTick, Fault, rows
  <2>4. ProcessedWasSent'
    BY <1>5 DEF SentInv, ProcessedWasSent, Crash, EndTick, Fault, rows
  <2> QED BY <2>1, <2>2, <2>3, <2>4 DEF SentInv
<1>6. ASSUME NEW w \in Workers, NEW e \in Events, Emit(w, e) PROVE SentInv'
  <2>1. Dated' /\ ClaimedCommitted'
    BY <1>6 DEF SentInv, Dated, ClaimedCommitted, TypeOK, Emit, Send, rows
  <2>2. SentWasCommitted'
    BY <1>6 DEF SentInv, SentWasCommitted, ClaimedCommitted, Current, TypeOK, Emit, Send, rows
  <2>3. UnmarkedWasSent'
    BY <1>6, CurrentKept, OneCurrent DEF SentInv, UnmarkedWasSent, Unmarked, TypeOK, Emit, Send, rows
  <2>4. ProcessedWasSent'
    BY <1>6 DEF SentInv, ProcessedWasSent, TypeOK, Emit, Send, rows
  <2> QED BY <2>1, <2>2, <2>3, <2>4 DEF SentInv
<1>7. ASSUME NEW w \in Workers, NEW e \in Events, EmitThrows(w, e) PROVE SentInv'
  <2>1. Dated' /\ ClaimedCommitted'
    BY <1>7 DEF SentInv, Dated, ClaimedCommitted, TypeOK, EmitThrows, rows
  <2>2. SentWasCommitted'
    BY <1>7 DEF SentInv, SentWasCommitted, EmitThrows, rows
  <2>3. UnmarkedWasSent'
    BY <1>7, CurrentKept DEF SentInv, UnmarkedWasSent, Unmarked, TypeOK, EmitThrows, rows
  <2>4. ProcessedWasSent'
    BY <1>7 DEF SentInv, ProcessedWasSent, EmitThrows, rows
  <2> QED BY <2>1, <2>2, <2>3, <2>4 DEF SentInv
<1>8. ASSUME NEW w \in Workers, NEW e \in Events, EmitUnconfirmed(w, e) PROVE SentInv'
  <2>1. Dated' /\ ClaimedCommitted'
    BY <1>8 DEF SentInv, Dated, ClaimedCommitted, TypeOK, EmitUnconfirmed, Send, Fault, rows
  <2>2. SentWasCommitted'
    BY <1>8 DEF SentInv, SentWasCommitted, ClaimedCommitted, Current, TypeOK, EmitUnconfirmed, Send, Fault, rows
  <2>3. UnmarkedWasSent'
    BY <1>8, CurrentKept, OneCurrent DEF SentInv, UnmarkedWasSent, Unmarked, TypeOK, EmitUnconfirmed, Send, Fault, rows
  <2>4. ProcessedWasSent'
    BY <1>8 DEF SentInv, ProcessedWasSent, TypeOK, EmitUnconfirmed, Send, Fault, rows
  <2> QED BY <2>1, <2>2, <2>3, <2>4 DEF SentInv
<1>9. ASSUME NEW w \in Workers, NEW e \in Events, MarkProcessed(w, e) PROVE SentInv'
  <2>1. Dated' /\ ClaimedCommitted'
    BY <1>9 DEF SentInv, Dated, ClaimedCommitted, TypeOK, MarkProcessed, NextEvent, rows
  <2>2. SentWasCommitted'
    BY <1>9 DEF SentInv, SentWasCommitted, MarkProcessed, NextEvent, rows
  <2>3. UnmarkedWasSent'
    BY <1>9, CurrentKept DEF SentInv, UnmarkedWasSent, Unmarked, TypeOK, MarkProcessed, NextEvent, rows
  <2>4. ProcessedWasSent'
    BY <1>9 DEF SentInv, ProcessedWasSent, UnmarkedWasSent, Unmarked, TypeOK, MarkProcessed, NextEvent, rows
  <2> QED BY <2>1, <2>2, <2>3, <2>4 DEF SentInv
<1>10. ASSUME NEW w \in Workers, NEW e \in Events, MarkProcessedThrows(w, e) PROVE SentInv'
  <2>1. Dated' /\ ClaimedCommitted'
    BY <1>10 DEF SentInv, Dated, ClaimedCommitted, TypeOK, MarkProcessedThrows, Fault, rows
  <2>2. SentWasCommitted'
    BY <1>10 DEF SentInv, SentWasCommitted, MarkProcessedThrows, Fault, rows
  <2>3. UnmarkedWasSent'
    BY <1>10, CurrentKept DEF SentInv, UnmarkedWasSent, Unmarked, TypeOK, MarkProcessedThrows, Fault, rows
  <2>4. ProcessedWasSent'
    BY <1>10 DEF SentInv, ProcessedWasSent, MarkProcessedThrows, Fault, rows
  <2> QED BY <2>1, <2>2, <2>3, <2>4 DEF SentInv
<1>11. ASSUME NEW w \in Workers, NEW e \in Events, MarkFailed(w, e) PROVE SentInv'
  <2>1. Dated' /\ ClaimedCommitted'
    BY <1>11 DEF SentInv, Dated, ClaimedCommitted, TypeOK, MarkFailed, NextEvent, rows
  <2>2. SentWasCommitted'
    BY <1>11 DEF SentInv, SentWasCommitted, MarkFailed, NextEvent, rows
  <2>3. UnmarkedWasSent'
    BY <1>11, CurrentKept DEF SentInv, UnmarkedWasSent, Unmarked, TypeOK, MarkFailed, NextEvent, rows
  <2>4. ProcessedWasSent'
    BY <1>11 DEF SentInv, ProcessedWasSent, MarkFailed, NextEvent, rows
  <2> QED BY <2>1, <2>2, <2>3, <2>4 DEF SentInv
<1>12. ASSUME NEW w \in Workers, NEW e \in Events, MarkFailedThrows(w, e) PROVE SentInv'
  <2>1. Dated' /\ ClaimedCommitted'
    BY <1>12 DEF SentInv, Dated, ClaimedCommitted, TypeOK, MarkFailedThrows, EndTick, Fault, rows
  <2>2. SentWasCommitted'
    BY <1>12 DEF SentInv, SentWasCommitted, MarkFailedThrows, EndTick, Fault, rows
  <2>3. UnmarkedWasSent'
    BY <1>12, CurrentKept DEF SentInv, UnmarkedWasSent, Unmarked, TypeOK, MarkFailedThrows, EndTick, Fault, rows
  <2>4. ProcessedWasSent'
    BY <1>12 DEF SentInv, ProcessedWasSent, MarkFailedThrows, EndTick, Fault, rows
  <2> QED BY <2>1, <2>2, <2>3, <2>4 DEF SentInv
<1>13. CASE UNCHANGED vars
  BY <1>13 DEF SentInv, Dated, ClaimedCommitted, SentWasCommitted, UnmarkedWasSent, Unmarked,
              Current, ProcessedWasSent, vars
<1> QED
  BY <1>1, <1>2, <1>3, <1>4, <1>5, <1>6, <1>7, <1>8, <1>9, <1>10, <1>11, <1>12, <1>13 DEF Next

LEMMA CopyStep == IInv /\ [Next]_vars => CopyInv'
<1> SUFFICES ASSUME IInv, [Next]_vars PROVE CopyInv'
  OBVIOUS
<1> USE DEF IInv
<1>1. ASSUME NEW e \in Events, WriteEvent(e) PROVE CopyInv'
  <2>1. \A w \in Workers : e \notin batch[w]
    BY <1>1 DEF SentInv, ClaimedCommitted, WriteEvent
  <2>2. \A w \in Workers, d \in Events : Current(w, d) => Current(w, d)'
    BY <1>1, <2>1 DEF Current, WriteEvent, TypeOK
  <2> QED
    BY <1>1, <2>2 DEF CopyInv, Quota, BatchQuota, OncePerWorker, Unmarked, WriteEvent, TypeOK
<1>2. ASSUME NEW e \in Events, NEW outcome \in {"committed", "aborted"}, EndTransaction(e, outcome)
      PROVE CopyInv'
  BY <1>2 DEF CopyInv, Quota, BatchQuota, OncePerWorker, Unmarked, Current, EndTransaction
<1>3. ASSUME NEW w \in Workers, PublishPending(w) PROVE CopyInv'
  <2>1. PICK claimed \in SUBSET Events :
           /\ batch' = [batch EXCEPT ![w] = claimed]
           /\ \A d \in claimed : tx[d] = "committed" /\ d \notin processed
    BY <1>3, ClaimIsPending
  <2>2. \A d \in claimed : sent[w][d] <= faults
    BY <1>3, <2>1 DEF CopyInv, Quota, Unmarked, PublishPending
  <2>3. Quota'
    BY <1>3, <2>1, CurrentKept DEF CopyInv, Quota, Unmarked, PublishPending, TypeOK
  <2>4. BatchQuota'
    BY <1>3, <2>1, <2>2, CurrentKept DEF CopyInv, BatchQuota, Unmarked, PublishPending, TypeOK
  <2> QED BY <1>3, <2>3, <2>4 DEF CopyInv, OncePerWorker, PublishPending
<1>4. ASSUME NEW w \in Workers, CommitClaim(w) PROVE CopyInv'
  <2>1. Quota'
    BY <1>4, CurrentKept, OneCurrent DEF SentInv, CopyInv, Quota, BatchQuota, OncePerWorker, Unmarked, Current, TypeOK, CommitClaim, rows
  <2>2. BatchQuota'
    BY <1>4, CurrentKept, OneCurrent DEF SentInv, CopyInv, BatchQuota, OncePerWorker, Unmarked, Current, TypeOK, CommitClaim, rows
  <2>3. OncePerWorker'
    BY <1>4 DEF CopyInv, BatchQuota, OncePerWorker, Unmarked, Current, TypeOK, CommitClaim, rows
  <2> QED BY <2>1, <2>2, <2>3 DEF CopyInv
<1>5. ASSUME NEW w \in Workers, Crash(w) PROVE CopyInv'
  <2>1. Quota'
    BY <1>5, CurrentKept, OneCurrent DEF SentInv, CopyInv, Quota, BatchQuota, OncePerWorker, Unmarked, Current, TypeOK, Crash, EndTick, Fault, rows
  <2>2. BatchQuota'
    BY <1>5, CurrentKept, OneCurrent DEF SentInv, CopyInv, BatchQuota, OncePerWorker, Unmarked, Current, TypeOK, Crash, EndTick, Fault, rows
  <2>3. OncePerWorker'
    BY <1>5 DEF CopyInv, BatchQuota, OncePerWorker, Unmarked, Current, TypeOK, Crash, EndTick, Fault, rows
  <2> QED BY <2>1, <2>2, <2>3 DEF CopyInv
<1>6. ASSUME NEW w \in Workers, NEW e \in Events, Emit(w, e) PROVE CopyInv'
  <2>1. Quota'
    BY <1>6, CurrentKept, OneCurrent DEF SentInv, CopyInv, Quota, BatchQuota, OncePerWorker, Unmarked, Current, TypeOK, Emit, Send, rows
  <2>2. BatchQuota'
    BY <1>6, CurrentKept, OneCurrent DEF SentInv, CopyInv, BatchQuota, OncePerWorker, Unmarked, Current, TypeOK, Emit, Send, rows
  <2>3. OncePerWorker'
    BY <1>6 DEF CopyInv, BatchQuota, OncePerWorker, Unmarked, Current, TypeOK, Emit, Send, rows
  <2> QED BY <2>1, <2>2, <2>3 DEF CopyInv
<1>7. ASSUME NEW w \in Workers, NEW e \in Events, EmitThrows(w, e) PROVE CopyInv'
  <2>1. Quota'
    BY <1>7, CurrentKept, OneCurrent DEF SentInv, CopyInv, Quota, BatchQuota, OncePerWorker, Unmarked, Current, TypeOK, EmitThrows, rows
  <2>2. BatchQuota'
    BY <1>7, CurrentKept, OneCurrent DEF SentInv, CopyInv, BatchQuota, OncePerWorker, Unmarked, Current, TypeOK, EmitThrows, rows
  <2>3. OncePerWorker'
    BY <1>7 DEF CopyInv, BatchQuota, OncePerWorker, Unmarked, Current, TypeOK, EmitThrows, rows
  <2> QED BY <2>1, <2>2, <2>3 DEF CopyInv
<1>8. ASSUME NEW w \in Workers, NEW e \in Events, EmitUnconfirmed(w, e) PROVE CopyInv'
  <2>1. Quota'
    BY <1>8, CurrentKept, OneCurrent DEF SentInv, CopyInv, Quota, BatchQuota, OncePerWorker, Unmarked, Current, TypeOK, EmitUnconfirmed, Send, Fault, rows
  <2>2. BatchQuota'
    BY <1>8, CurrentKept, OneCurrent DEF SentInv, CopyInv, BatchQuota, OncePerWorker, Unmarked, Current, TypeOK, EmitUnconfirmed, Send, Fault, rows
  <2>3. OncePerWorker'
    BY <1>8 DEF CopyInv, BatchQuota, OncePerWorker, Unmarked, Current, TypeOK, EmitUnconfirmed, Send, Fault, rows
  <2> QED BY <2>1, <2>2, <2>3 DEF CopyInv
<1>9. ASSUME NEW w \in Workers, NEW e \in Events, MarkProcessed(w, e) PROVE CopyInv'
  <2>1. Quota'
    BY <1>9, CurrentKept, OneCurrent DEF SentInv, CopyInv, Quota, BatchQuota, OncePerWorker, Unmarked, Current, TypeOK, MarkProcessed, NextEvent, rows
  <2>2. BatchQuota'
    BY <1>9, CurrentKept, OneCurrent DEF SentInv, CopyInv, BatchQuota, OncePerWorker, Unmarked, Current, TypeOK, MarkProcessed, NextEvent, rows
  <2>3. OncePerWorker'
    BY <1>9 DEF CopyInv, BatchQuota, OncePerWorker, Unmarked, Current, TypeOK, MarkProcessed, NextEvent, rows
  <2> QED BY <2>1, <2>2, <2>3 DEF CopyInv
<1>10. ASSUME NEW w \in Workers, NEW e \in Events, MarkProcessedThrows(w, e) PROVE CopyInv'
  <2>1. Quota'
    BY <1>10, CurrentKept, OneCurrent DEF SentInv, CopyInv, Quota, BatchQuota, OncePerWorker, Unmarked, Current, TypeOK, MarkProcessedThrows, Fault, rows
  <2>2. BatchQuota'
    BY <1>10, CurrentKept, OneCurrent DEF SentInv, CopyInv, BatchQuota, OncePerWorker, Unmarked, Current, TypeOK, MarkProcessedThrows, Fault, rows
  <2>3. OncePerWorker'
    BY <1>10 DEF CopyInv, BatchQuota, OncePerWorker, Unmarked, Current, TypeOK, MarkProcessedThrows, Fault, rows
  <2> QED BY <2>1, <2>2, <2>3 DEF CopyInv
<1>11. ASSUME NEW w \in Workers, NEW e \in Events, MarkFailed(w, e) PROVE CopyInv'
  <2>1. Quota'
    BY <1>11, CurrentKept, OneCurrent DEF SentInv, CopyInv, Quota, BatchQuota, OncePerWorker, Unmarked, Current, TypeOK, MarkFailed, NextEvent, rows
  <2>2. BatchQuota'
    BY <1>11, CurrentKept, OneCurrent DEF SentInv, CopyInv, BatchQuota, OncePerWorker, Unmarked, Current, TypeOK, MarkFailed, NextEvent, rows
  <2>3. OncePerWorker'
    BY <1>11 DEF CopyInv, BatchQuota, OncePerWorker, Unmarked, Current, TypeOK, MarkFailed, NextEvent, rows
  <2> QED BY <2>1, <2>2, <2>3 DEF CopyInv
<1>12. ASSUME NEW w \in Workers, NEW e \in Events, MarkFailedThrows(w, e) PROVE CopyInv'
  <2>1. Quota'
    BY <1>12, CurrentKept, OneCurrent DEF SentInv, CopyInv, Quota, BatchQuota, OncePerWorker, Unmarked, Current, TypeOK, MarkFailedThrows, EndTick, Fault, rows
  <2>2. BatchQuota'
    BY <1>12, CurrentKept, OneCurrent DEF SentInv, CopyInv, BatchQuota, OncePerWorker, Unmarked, Current, TypeOK, MarkFailedThrows, EndTick, Fault, rows
  <2>3. OncePerWorker'
    BY <1>12 DEF CopyInv, BatchQuota, OncePerWorker, Unmarked, Current, TypeOK, MarkFailedThrows, EndTick, Fault, rows
  <2> QED BY <2>1, <2>2, <2>3 DEF CopyInv
<1>13. CASE UNCHANGED vars
  BY <1>13 DEF CopyInv, Quota, BatchQuota, OncePerWorker, Unmarked, Current, vars
<1> QED
  BY <1>1, <1>2, <1>3, <1>4, <1>5, <1>6, <1>7, <1>8, <1>9, <1>10, <1>11, <1>12, <1>13 DEF Next

LEMMA InvariantHolds == Spec => []IInv
<1>1. Init => SentInv /\ CopyInv
  BY OutboxAssumption DEF Init, SentInv, Dated, ClaimedCommitted, SentWasCommitted, UnmarkedWasSent, Unmarked,
     ProcessedWasSent, CopyInv, Quota, BatchQuota, OncePerWorker
<1>2. TypeOK /\ (SentInv /\ CopyInv) /\ [Next]_vars => (SentInv /\ CopyInv)'
  BY SentStep, CopyStep DEF IInv
<1> QED BY <1>1, <1>2, TypeCorrect, PTL DEF Spec, IInv

\* No event of a transaction that rolled back reaches the broker.
THEOREM SentWasCommittedHolds == Spec => []SentWasCommitted
<1>1. IInv => SentWasCommitted
  BY DEF IInv, SentInv
<1> QED BY <1>1, InvariantHolds, PTL

\* A row marked processed has been sent, whatever crashed or failed.
THEOREM ProcessedWasSentHolds == Spec => []ProcessedWasSent
<1>1. IInv => ProcessedWasSent
  BY DEF IInv, SentInv
<1> QED BY <1>1, InvariantHolds, PTL

\* A worker sends an event at most once, and once more per fault.
THEOREM OncePerWorkerHolds == Spec => []OncePerWorker
<1>1. IInv => OncePerWorker
  BY DEF IInv, CopyInv
<1> QED BY <1>1, InvariantHolds, PTL
-----------------------------------------------------------------------------
(* The refinement of OutboxDelivery.  What PublishPending claims does not    *)
(* show; an emit is a delivery, and the invariant says that the promise      *)
(* allows it; MarkProcessed settles; what fails is a lapse.                  *)

\* The event a worker is about to emit has committed and is owed a copy.
LEMMA EmitAllowed ==
  ASSUME IInv, NEW w \in Workers, NEW e \in Events, at[w] = "emit", Current(w, e)
  PROVE  e \in Committed /\ sent[w][e] <= faults
<1>1. e \in batch[w] /\ ~Unmarked(w, e)
  BY DEF Current, Unmarked
<1>2. tx[e] = "committed"
  BY <1>1 DEF IInv, SentInv, ClaimedCommitted
<1>3. sent[w][e] <= faults
  BY <1>1 DEF IInv, CopyInv, BatchQuota
<1> QED BY <1>2, <1>3 DEF Committed

\* A step that leaves the rows alone publishes nothing.
LEMMA NothingPublished == ASSUME UNCHANGED rows PROVE Committed' = Committed
BY DEF Committed, rows

LEMMA CommitPublishes ==
  ASSUME TypeOK, NEW e \in Events, NEW outcome \in {"committed", "aborted"}, EndTransaction(e, outcome)
  PROVE  Delivery!Publish(e) \/ UNCHANGED Delivery!deliveryVars
<1>1. UNCHANGED <<processed, sent, faults>>
  BY DEF EndTransaction
<1>2. \A d \in Events : tx'[d] = IF d = e THEN outcome ELSE tx[d]
  BY DEF EndTransaction, TypeOK
<1>3. CASE outcome = "committed"
  <2>1. Committed' = Committed \cup {e}
    BY <1>2, <1>3 DEF Committed
  <2> QED BY <1>1, <2>1 DEF Delivery!Publish
<1>4. CASE outcome = "aborted"
  <2>1. tx[e] = "open"
    BY DEF EndTransaction
  <2>2. Committed' = Committed
    BY <1>2, <1>4, <2>1 DEF Committed
  <2> QED BY <1>1, <2>2 DEF Delivery!deliveryVars
<1> QED BY <1>3, <1>4

LEMMA EmitDelivers ==
  ASSUME IInv, NEW w \in Workers, NEW e \in Events, Emit(w, e) \/ EmitUnconfirmed(w, e)
  PROVE  Delivery!Deliver(w, e)
<1>1. e \in Committed /\ sent[w][e] <= faults
  BY EmitAllowed DEF Emit, EmitUnconfirmed
<1>2. sent' = [sent EXCEPT ![w][e] = @ + 1]
  BY DEF Emit, EmitUnconfirmed, Send
<1>3. Committed' = Committed /\ processed' = processed
  BY NothingPublished DEF Emit, EmitUnconfirmed
<1>4. faults' \in {faults, faults + 1}
  BY DEF Emit, EmitUnconfirmed, Fault
<1> QED BY <1>1, <1>2, <1>3, <1>4 DEF Delivery!Deliver

\* A row is marked by a worker that has sent its event.
LEMMA MarkSettles ==
  ASSUME IInv, NEW w \in Workers, NEW e \in Events, MarkProcessed(w, e)
  PROVE  Delivery!Settle(e)
<1>1. sent[w][e] > 0
  BY DEF MarkProcessed, IInv, SentInv, UnmarkedWasSent, Unmarked
<1>2. Committed' = Committed /\ UNCHANGED <<sent, faults>>
  BY NothingPublished DEF MarkProcessed
<1> QED BY <1>1, <1>2 DEF MarkProcessed, Delivery!Settle

LEMMA FaultLapses ==
  ASSUME Fault, UNCHANGED <<rows, processed, sent>>
  PROVE  Delivery!Lapse
BY NothingPublished DEF Fault, Delivery!Lapse

LEMMA QuietStutters ==
  ASSUME UNCHANGED <<rows, processed, sent, faults>>
  PROVE  UNCHANGED Delivery!deliveryVars
BY NothingPublished DEF Delivery!deliveryVars

LEMMA DeliveryStep == IInv /\ [Next]_vars => [Delivery!DeliveryNext]_Delivery!deliveryVars
<1> SUFFICES ASSUME IInv, [Next]_vars PROVE [Delivery!DeliveryNext]_Delivery!deliveryVars
  OBVIOUS
<1> USE DEF Delivery!DeliveryNext
<1>1. ASSUME NEW e \in Events, WriteEvent(e) PROVE UNCHANGED Delivery!deliveryVars
  <2>1. Committed' = Committed
    BY <1>1 DEF WriteEvent, Committed, IInv, TypeOK
  <2> QED BY <1>1, <2>1 DEF WriteEvent, Delivery!deliveryVars
<1>2. ASSUME NEW e \in Events, NEW outcome \in {"committed", "aborted"}, EndTransaction(e, outcome)
      PROVE [Delivery!DeliveryNext]_Delivery!deliveryVars
  BY <1>2, CommitPublishes DEF IInv
<1>3. ASSUME NEW w \in Workers, PublishPending(w) \/ CommitClaim(w)
      PROVE UNCHANGED Delivery!deliveryVars
  BY <1>3, QuietStutters DEF PublishPending, CommitClaim
<1>4. ASSUME NEW w \in Workers, Crash(w) PROVE Delivery!Lapse
  BY <1>4, FaultLapses DEF Crash
<1>5. ASSUME NEW w \in Workers, NEW e \in Events, Emit(w, e) \/ EmitUnconfirmed(w, e)
      PROVE Delivery!Deliver(w, e)
  BY <1>5, EmitDelivers
<1>6. ASSUME NEW w \in Workers, NEW e \in Events, EmitThrows(w, e) \/ MarkFailed(w, e)
      PROVE UNCHANGED Delivery!deliveryVars
  BY <1>6, QuietStutters DEF EmitThrows, MarkFailed
<1>7. ASSUME NEW w \in Workers, NEW e \in Events, MarkProcessed(w, e) PROVE Delivery!Settle(e)
  BY <1>7, MarkSettles
<1>8. ASSUME NEW w \in Workers, NEW e \in Events,
             MarkProcessedThrows(w, e) \/ MarkFailedThrows(w, e)
      PROVE Delivery!Lapse
  BY <1>8, FaultLapses DEF MarkProcessedThrows, MarkFailedThrows
<1>9. CASE UNCHANGED vars
  BY <1>9, QuietStutters DEF vars, rows
<1> QED
  BY <1>1, <1>2, <1>3, <1>4, <1>5, <1>6, <1>7, <1>8, <1>9 DEF Next

\* The outbox implements OutboxDelivery: whatever processes claim twice, mark
\* late or leave behind in a crash, only committed events are delivered, once
\* by each process and once more per fault, and a row settles by a delivery.
THEOREM ImplementsDeliveryHolds == Spec => ImplementsDelivery
<1>1. Init => Delivery!DeliveryInit
  BY DEF Init, Committed, Delivery!DeliveryInit
<1> QED BY <1>1, DeliveryStep, InvariantHolds, PTL DEF Spec, ImplementsDelivery, Delivery!DeliverySpec
=============================================================================
