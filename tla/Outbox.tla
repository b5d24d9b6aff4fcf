------------------------------- MODULE Outbox -------------------------------
(***************************************************************************)
(* The transactional outbox.  OutboxService.writeEvent inserts a row in    *)
(* the caller's transaction; in every backend process OutboxProcessor      *)
(* .processOutbox runs each second, claims the oldest pending rows with    *)
(* publishPending, emits each one and marks it processed or failed.        *)
(*                                                                         *)
(* publishPending selects its rows FOR UPDATE SKIP LOCKED and commits      *)
(* before it returns, so the lock is gone while the rows are published.    *)
(* Until that commit an UPDATE of a selected row by another process waits. *)
(***************************************************************************)
EXTENDS Integers, FiniteSets

CONSTANTS
  Events,       \* the events the callers want to publish
  Workers,      \* the backend processes running an OutboxProcessor
  BatchSize,    \* rows claimed per tick (50 in the code)
  MaxRetries,   \* the retry_count at which a row is no longer claimed (10)
  MaxRefusals,  \* bound on emits the broker refuses
  MaxFaults     \* bound on crashes, lost confirmations and failing statements

ASSUME OutboxAssumption ==
  /\ BatchSize \in Nat \ {0}
  /\ MaxRetries \in Nat \ {0}
  /\ MaxRefusals \in Nat
  /\ MaxFaults \in Nat

VARIABLES
  tx,         \* the caller's transaction: "none", "open", "committed", "aborted"
  created,    \* created_at of the row, 0 before it is inserted
  clock,      \* the last created_at given out
  processed,  \* the rows with processed = TRUE
  retry,      \* retry_count of each row
  at,         \* where a worker's processOutbox stands
  batch,      \* the rows a worker has claimed and not finished, oldest first
  sent,       \* sent[w][e]: the times worker w put event e on the broker
  refusals, faults

vars == <<tx, created, clock, processed, retry, at, batch, sent, refusals, faults>>
rows == <<tx, created, clock>>

Places == {"idle", "select", "emit", "mark", "fail"}

Init ==
  /\ tx = [e \in Events |-> "none"]
  /\ created = [e \in Events |-> 0]
  /\ clock = 0
  /\ processed = {}
  /\ retry = [e \in Events |-> 0]
  /\ at = [w \in Workers |-> "idle"]
  /\ batch = [w \in Workers |-> {}]
  /\ sent = [w \in Workers |-> [e \in Events |-> 0]]
  /\ refusals = 0
  /\ faults = 0

-----------------------------------------------------------------------------
(* The callers' transactions.                                              *)

WriteEvent(e) ==
  /\ tx[e] = "none"
  /\ tx' = [tx EXCEPT ![e] = "open"]
  /\ clock' = clock + 1
  /\ created' = [created EXCEPT ![e] = clock + 1]
  /\ UNCHANGED <<processed, retry, at, batch, sent, refusals, faults>>

EndTransaction(e, outcome) ==
  /\ tx[e] = "open"
  /\ tx' = [tx EXCEPT ![e] = outcome]
  /\ UNCHANGED <<created, clock, processed, retry, at, batch, sent, refusals, faults>>

-----------------------------------------------------------------------------
(* One tick of a worker.                                                   *)

Selected(w) == IF at[w] = "select" THEN batch[w] ELSE {}

\* An UPDATE of row e waits while another process has it selected.
Waits(w, e) == \E v \in Workers \ {w} : e \in Selected(v)

\* A mistake: rows of transactions that have not committed are read.
Pending_Dirty == {e \in Events : tx[e] # "none" /\ e \notin processed /\ retry[e] < MaxRetries}

\* A mistake: a row that failed once is never claimed again.
Pending_Fresh == {e \in Events : tx[e] = "committed" /\ e \notin processed /\ retry[e] < 1}

Pending == {e \in Events : tx[e] = "committed" /\ e \notin processed /\ retry[e] < MaxRetries}

\* The n oldest rows of S.
Oldest(S, n) == {e \in S : Cardinality({d \in S : created[d] < created[e]}) < n}

PublishPending(w) ==
  /\ at[w] = "idle"
  /\ \E claimed \in {Oldest(Pending \ UNION {Selected(v) : v \in Workers}, BatchSize)} :
       /\ claimed # {}
       /\ batch' = [batch EXCEPT ![w] = claimed]
  /\ at' = [at EXCEPT ![w] = "select"]
  /\ UNCHANGED <<rows, processed, retry, sent, refusals, faults>>

CommitClaim(w) ==
  /\ at[w] = "select"
  /\ at' = [at EXCEPT ![w] = "emit"]
  /\ UNCHANGED <<rows, processed, retry, batch, sent, refusals, faults>>

\* The event processEvent is working on: the loop follows created_at.
Current(w, e) ==
  /\ e \in batch[w]
  /\ \A d \in batch[w] : created[e] <= created[d]

\* processEvent has finished e; the loop goes on to the next row or ends.
NextEvent(w, e) ==
  /\ batch' = [batch EXCEPT ![w] = batch[w] \ {e}]
  /\ at' = [at EXCEPT ![w] = IF batch[w] \ {e} = {} THEN "idle" ELSE "emit"]

\* The tick ends early: its batch is forgotten, its locks are released.
EndTick(w) ==
  /\ batch' = [batch EXCEPT ![w] = {}]
  /\ at' = [at EXCEPT ![w] = "idle"]

Send(w, e) == sent' = [sent EXCEPT ![w][e] = sent[w][e] + 1]

Fault ==
  /\ faults < MaxFaults
  /\ faults' = faults + 1

Emit(w, e) ==
  /\ at[w] = "emit" /\ Current(w, e)
  /\ Send(w, e)
  /\ at' = [at EXCEPT ![w] = "mark"]
  /\ UNCHANGED <<rows, processed, retry, batch, refusals, faults>>

\* The broker refuses the event.
EmitThrows(w, e) ==
  /\ at[w] = "emit" /\ Current(w, e)
  /\ refusals < MaxRefusals
  /\ refusals' = refusals + 1
  /\ at' = [at EXCEPT ![w] = "fail"]
  /\ UNCHANGED <<rows, processed, retry, batch, sent, faults>>

\* The broker has the event, its confirmation is lost.
EmitUnconfirmed(w, e) ==
  /\ at[w] = "emit" /\ Current(w, e)
  /\ Fault
  /\ Send(w, e)
  /\ at' = [at EXCEPT ![w] = "fail"]
  /\ UNCHANGED <<rows, processed, retry, batch, refusals>>

\* A mistake: the row is left as it was.
MarkProcessed_Forgotten(w, e) ==
  /\ at[w] = "mark" /\ Current(w, e)
  /\ NextEvent(w, e)
  /\ UNCHANGED <<rows, processed, retry, sent, refusals, faults>>

MarkProcessed(w, e) ==
  /\ at[w] = "mark" /\ Current(w, e)
  /\ ~ Waits(w, e)
  /\ processed' = processed \cup {e}
  /\ NextEvent(w, e)
  /\ UNCHANGED <<rows, retry, sent, refusals, faults>>

\* markProcessed is inside the same try: its failure counts as a failed publish.
MarkProcessedThrows(w, e) ==
  /\ at[w] = "mark" /\ Current(w, e)
  /\ Fault
  /\ at' = [at EXCEPT ![w] = "fail"]
  /\ UNCHANGED <<rows, processed, retry, batch, sent, refusals>>

MarkFailed(w, e) ==
  /\ at[w] = "fail" /\ Current(w, e)
  /\ ~ Waits(w, e)
  /\ retry' = [retry EXCEPT ![e] = retry[e] + 1]
  /\ NextEvent(w, e)
  /\ UNCHANGED <<rows, processed, sent, refusals, faults>>

\* markFailed throws, before or after its increment: the rest of the batch is
\* given up.
MarkFailedThrows(w, e) ==
  /\ at[w] = "fail" /\ Current(w, e)
  /\ Fault
  /\ \/ UNCHANGED retry
     \/ /\ ~ Waits(w, e)
        /\ retry' = [retry EXCEPT ![e] = retry[e] + 1]
  /\ EndTick(w)
  /\ UNCHANGED <<rows, processed, sent, refusals>>

\* The process dies, or a statement of publishPending fails.
Crash(w) ==
  /\ at[w] # "idle"
  /\ Fault
  /\ EndTick(w)
  /\ UNCHANGED <<rows, processed, retry, sent, refusals>>

Next ==
  \/ \E e \in Events : WriteEvent(e)
  \/ \E e \in Events, outcome \in {"committed", "aborted"} : EndTransaction(e, outcome)
  \/ \E w \in Workers : PublishPending(w) \/ CommitClaim(w) \/ Crash(w)
  \/ \E w \in Workers, e \in Events :
       \/ Emit(w, e) \/ EmitThrows(w, e) \/ EmitUnconfirmed(w, e)
       \/ MarkProcessed(w, e) \/ MarkProcessedThrows(w, e)
       \/ MarkFailed(w, e) \/ MarkFailedThrows(w, e)

Spec == Init /\ [][Next]_vars

Emitting(w) == \E e \in Events : Emit(w, e) \/ EmitThrows(w, e) \/ EmitUnconfirmed(w, e)
Marking(w) == \E e \in Events : MarkProcessed(w, e) \/ MarkFailed(w, e)

\* The cron fires every second in every process and an await returns.  An
\* UPDATE that waits for a row is served when the row is released: PostgreSQL
\* queues the waiters and SKIP LOCKED passes over a row with a waiter, hence
\* strong fairness of the marks.
FairSpec ==
  /\ Spec
  /\ \A w \in Workers :
       /\ WF_vars(PublishPending(w))
       /\ WF_vars(CommitClaim(w))
       /\ WF_vars(Emitting(w))
       /\ SF_vars(Marking(w))

-----------------------------------------------------------------------------
TypeOK ==
  /\ tx \in [Events -> {"none", "open", "committed", "aborted"}]
  /\ created \in [Events -> Nat]
  /\ clock \in Nat
  /\ processed \subseteq Events
  /\ retry \in [Events -> Nat]
  /\ at \in [Workers -> Places]
  /\ batch \in [Workers -> SUBSET Events]
  /\ sent \in [Workers -> [Events -> Nat]]
  /\ refusals \in 0 .. MaxRefusals
  /\ faults \in 0 .. MaxFaults

\* An event reaches the broker only if the transaction that wrote it
\* committed (writeEvent inside the caller's transaction, ADR-002).
SentWasCommitted ==
  \A w \in Workers, e \in Events : sent[w][e] > 0 => tx[e] = "committed"

\* A row is marked processed only after some worker has sent its event:
\* markProcessed follows the awaited emit in processEvent.
ProcessedWasSent ==
  \A e \in processed : \E w \in Workers : sent[w][e] > 0

\* Without faults no worker sends an event twice, and each fault costs at
\* most one more copy; every process may send its own copy, since the claim
\* of publishPending does not outlive its transaction.
OncePerWorker ==
  \A w \in Workers, e \in Events : sent[w][e] <= 1 + faults

\* A committed row is eventually processed, or used up its retries.
RowSettles ==
  \A e \in Events :
    tx[e] = "committed" ~> (e \in processed \/ retry[e] >= MaxRetries)

-----------------------------------------------------------------------------
Committed == {e \in Events : tx[e] = "committed"}

Delivery == INSTANCE OutboxDelivery WITH
    published <- Committed, copies <- sent, settled <- processed, lapses <- faults

\* The outbox keeps the promise of OutboxDelivery, whatever several processes
\* claim at the same time, mark twice, mark late or leave behind in a crash.
ImplementsDelivery == Delivery!DeliverySpec
=============================================================================
