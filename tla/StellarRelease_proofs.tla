----------------------- MODULE StellarRelease_proofs -----------------------
(***************************************************************************)
(* The properties of StellarRelease for every list of investors, value,    *)
(* batch size, number of runs and fee attempts.                            *)
(*                                                                         *)
(* OncePerRun and BatchesInOrder rest on the argument that makes a Stellar *)
(* sequence number a lock: of all transactions that can still be applied,  *)
(* those with the next sequence number exclude one another, so a           *)
(* transaction left in flight by an earlier run competes with the first    *)
(* batch of the current run and with nothing after it (IInv).  Amounts     *)
(* play no role in it; they are the subject of the second part (MoneyInv), *)
(* where the shares that are rounded down, and the remainder, are shown to *)
(* add up to what the escrow holds.  The last part shows, from both and    *)
(* from what becomes of late transactions (PayoutInv), that every step is  *)
(* one of BatchedPayout.                                                   *)
(***************************************************************************)
EXTENDS StellarRelease, SumLemmas

Running == at \in {"build", "submit"}

\* The part of the types that the argument needs.
CountsOK ==
    /\ at \in {"idle", "build", "submit", "commit", "done"}
    /\ batch \in Batches /\ seq \in Nat /\ runs \in Nat
    /\ batchPaid \in [Batches -> Nat]

\* A transaction that was built, when it could be the next one of the account:
\* its batch is behind the one before it.
Follows(t) ==
    /\ t.seq \in Nat /\ t.batch \in Batches /\ t.seq <= seq + 1
    /\ t.seq = seq + 1 /\ t.batch > 0 => batchPaid[t.batch] < batchPaid[t.batch - 1]

\* What an earlier run left in flight and the current run has still to pay are
\* both missing from the counts.
Missing == IF Running THEN 2 ELSE 1
Counts(t) == t.seq = seq + 1 => batchPaid[t.batch] + Missing <= runs

InFlightOK == \A t \in inflight : Follows(t) /\ Counts(t)

\* The transaction to be submitted belongs to the current batch.
SubmitOK == at = "submit" => tx.seq \in Nat /\ tx.seq <= seq + 1 /\ tx.batch = batch

\* From the second batch of a run on, nothing else can be applied.
Alone ==
    Running /\ batch > 0 =>
        /\ batchPaid[batch] < batchPaid[batch - 1]
        /\ \A t \in inflight : t.seq <= seq

\* The current run has not paid the batches it has not reached.
Ahead(k) == Running /\ k >= batch => batchPaid[k] + 1 <= runs
RunOK == \A k \in Batches : Ahead(k)

IInv ==
    /\ CountsOK /\ InFlightOK /\ SubmitOK /\ Alone /\ RunOK
    /\ OncePerRun /\ BatchesInOrder

-----------------------------------------------------------------------------
(* There is a batch, even if it is the only one. *)
LEMMA BatchesExist == BatchCount \in Nat \ {0} /\ 0 \in Batches /\ LastBatch \in Batches
<1>1. Len(Tokens) \in Nat \ {0} /\ BatchSize \in Nat \ {0}
  BY ReleaseAssumption
<1>2. ASSUME NEW n \in Nat \ {0}, NEW b \in Nat \ {0}
      PROVE  (n + b - 1) \div b \in Nat \ {0}
  <2>1. n + b - 1 >= b /\ n + b - 1 \in Int
    OBVIOUS
  <2> DEFINE q == (n + b - 1) \div b
             r == (n + b - 1) % b
  <2>2. q \in Int /\ r \in 0..(b - 1) /\ n + b - 1 = b * q + r
    BY <2>1
  <2>3. q > 0
    <3>1. SUFFICES ASSUME q <= 0 PROVE FALSE
      BY <2>2
    <3>2. b * q <= 0
      BY <2>2, <3>1
    <3> QED BY <2>1, <2>2, <3>2
  <2> QED BY <2>2, <2>3
<1> QED BY <1>1, <1>2 DEF BatchCount, Batches, LastBatch

(* A transaction of batch b is applied: the counts afterwards. *)
LEMMA PayKeeps ==
  ASSUME CountsOK, BatchesInOrder, NEW b \in Batches,
         b > 0 => batchPaid[b] < batchPaid[b - 1],
         batchPaid' = [batchPaid EXCEPT ![b] = @ + 1]
  PROVE  /\ batchPaid' \in [Batches -> Nat]
         /\ batchPaid'[b] = batchPaid[b] + 1
         /\ \A k \in Batches : k # b => batchPaid'[k] = batchPaid[k]
         /\ BatchesInOrder'
<1>1. \A k \in Batches : k \in Int /\ (k > 0 => k - 1 \in Batches) /\ batchPaid[k] \in Nat
  BY BatchesExist DEF CountsOK, Batches
<1>2. batchPaid' \in [Batches -> Nat] /\ batchPaid'[b] = batchPaid[b] + 1
  BY <1>1 DEF CountsOK
<1>3. \A k \in Batches : k # b => batchPaid'[k] = batchPaid[k]
  BY DEF CountsOK
<1>4. ASSUME NEW k \in Batches, k > 0
      PROVE  batchPaid'[k] <= batchPaid'[k - 1]
  <2>1. batchPaid[k] <= batchPaid[k - 1] /\ k - 1 \in Batches
    BY <1>1, <1>4 DEF BatchesInOrder
  <2>2. CASE k = b
    BY <1>1, <1>2, <1>3, <1>4, <2>1, <2>2
  <2>3. CASE k - 1 = b
    BY <1>1, <1>2, <1>3, <1>4, <2>1, <2>3
  <2>4. CASE k # b /\ k - 1 # b
    BY <1>1, <1>3, <2>1, <2>4
  <2> QED BY <2>2, <2>3, <2>4
<1>5. BatchesInOrder'
  BY <1>4 DEF BatchesInOrder, Batches, BatchCount
<1> QED BY <1>2, <1>3, <1>5

(* The sequence number is spent: nothing in flight can be applied any more. *)
LEMMA SpentSequence ==
  ASSUME InFlightOK, seq \in Nat, seq' = seq + 1, inflight' \subseteq inflight
  PROVE  InFlightOK' /\ \A t \in inflight' : t.seq <= seq'
<1>1. ASSUME NEW t \in inflight'
      PROVE  t.seq \in Nat /\ t.batch \in Batches /\ t.seq <= seq' /\ t.seq # seq' + 1
  BY <1>1 DEF InFlightOK, Follows
<1>2. InFlightOK'
  BY <1>1 DEF InFlightOK, Follows, Counts, Batches, BatchCount
<1> QED BY <1>1, <1>2
-----------------------------------------------------------------------------
LEMMA InitIInv == Init => IInv
<1> SUFFICES ASSUME Init PROVE IInv
  OBVIOUS
<1>1. CountsOK
  BY BatchesExist DEF Init, CountsOK
<1>2. InFlightOK /\ SubmitOK /\ Alone /\ RunOK
  BY DEF Init, InFlightOK, SubmitOK, Alone, RunOK, Ahead, Running
<1>3. OncePerRun /\ BatchesInOrder
  <2>1. \A k \in Batches : k \in Int /\ (k > 0 => k - 1 \in Batches)
    BY BatchesExist DEF Batches
  <2> QED BY <2>1 DEF Init, OncePerRun, BatchesInOrder
<1> QED BY <1>1, <1>2, <1>3 DEF IInv

(* A run starts: every batch is one payment further behind the number of runs. *)
LEMMA StartKeeps == IInv /\ StartRelease => IInv'
<1> SUFFICES ASSUME IInv, StartRelease PROVE IInv'
  OBVIOUS
<1>1. /\ at = "idle" /\ at' = "build" /\ batch' = 0 /\ runs' = runs + 1
      /\ UNCHANGED <<seq, batchPaid, inflight>>
  BY DEF StartRelease, ledger
<1>2. CountsOK'
  BY <1>1, BatchesExist DEF IInv, CountsOK, Batches, BatchCount
<1>3. ASSUME NEW t \in inflight PROVE Follows(t)' /\ Counts(t)'
  <2>1. Follows(t) /\ Counts(t) /\ seq \in Nat /\ runs \in Nat /\ batchPaid \in [Batches -> Nat]
    BY <1>3 DEF IInv, InFlightOK, CountsOK
  <2>2. Follows(t)'
    BY <1>1, <2>1 DEF Follows, Batches, BatchCount
  <2>3. Counts(t)'
    BY <1>1, <2>1 DEF Counts, Missing, Running, Follows
  <2> QED BY <2>2, <2>3
<1>4. SubmitOK' /\ Alone'
  BY <1>1 DEF SubmitOK, Alone
<1>5. RunOK' /\ OncePerRun' /\ BatchesInOrder'
  BY <1>1 DEF IInv, CountsOK, RunOK, Ahead, OncePerRun, BatchesInOrder, Batches, BatchCount
<1> QED BY <1>1, <1>2, <1>3, <1>4, <1>5 DEF IInv, InFlightOK

LEMMA BuildKeeps == IInv /\ BuildTx => IInv'
<1> SUFFICES ASSUME IInv, BuildTx PROVE IInv'
  OBVIOUS
<1>1. /\ at = "build" /\ at' = "submit" /\ tx'.seq = seq + 1 /\ tx'.batch = batch
      /\ UNCHANGED <<batch, runs, seq, batchPaid, inflight>>
  BY DEF BuildTx, ledger
<1>2. CountsOK' /\ SubmitOK'
  BY <1>1 DEF IInv, CountsOK, SubmitOK, Batches, BatchCount
<1>3. InFlightOK'
  BY <1>1 DEF IInv, InFlightOK, Follows, Counts, Missing, Running, Batches, BatchCount
<1>4. Alone' /\ RunOK'
  BY <1>1 DEF IInv, Alone, RunOK, Ahead, Running, Batches, BatchCount
<1>5. OncePerRun' /\ BatchesInOrder'
  BY <1>1 DEF IInv, OncePerRun, BatchesInOrder, Batches, BatchCount
<1> QED BY <1>2, <1>3, <1>4, <1>5 DEF IInv

(* The transaction of the current batch may be applied. *)
LEMMA SubmitReady ==
  ASSUME IInv, at = "submit", Valid(tx)
  PROVE  /\ batch \in Batches /\ tx.batch = batch /\ tx.seq = seq + 1
         /\ batch > 0 => batchPaid[batch] < batchPaid[batch - 1]
         /\ batchPaid[batch] + 1 <= runs
<1>1. batch \in Batches /\ tx.batch = batch /\ tx.seq = seq + 1
  BY DEF IInv, CountsOK, SubmitOK, Valid
<1>2. batch \in Int
  BY <1>1, BatchesExist DEF Batches
<1>3. batch > 0 => batchPaid[batch] < batchPaid[batch - 1]
  BY DEF IInv, Alone, Running
<1>4. batchPaid[batch] + 1 <= runs
  BY <1>1, <1>2 DEF IInv, RunOK, Ahead, Running
<1> QED BY <1>1, <1>3, <1>4

LEMMA SubmittedKeeps == IInv /\ Submitted => IInv'
<1> SUFFICES ASSUME IInv, Submitted PROVE IInv'
  OBVIOUS
<1>1. /\ at = "submit" /\ UNCHANGED <<inflight, runs>> /\ seq' = seq + 1
      /\ batchPaid' = [batchPaid EXCEPT ![batch] = @ + 1]
  BY SubmitReady DEF Submitted, Apply
<1>2. \/ at' = "commit" /\ batch' = batch
      \/ at' = "build" /\ batch' = batch + 1 /\ batch # LastBatch
  BY DEF Submitted
<1>3. /\ batch \in Batches /\ batchPaid[batch] + 1 <= runs
      /\ batch > 0 => batchPaid[batch] < batchPaid[batch - 1]
  BY SubmitReady DEF Submitted
<1>4. CountsOK /\ BatchesInOrder /\ OncePerRun /\ RunOK /\ InFlightOK
  BY DEF IInv
<1>5. /\ batchPaid' \in [Batches -> Nat] /\ batchPaid'[batch] = batchPaid[batch] + 1
      /\ \A k \in Batches : k # batch => batchPaid'[k] = batchPaid[k]
      /\ BatchesInOrder'
  BY <1>1, <1>3, <1>4, PayKeeps
<1>6. InFlightOK' /\ \A t \in inflight' : t.seq <= seq'
  BY <1>1, <1>4, SpentSequence DEF CountsOK
<1>7. batch' \in Batches /\ (at' = "build" => batch' = batch + 1 /\ batch' > 0)
  BY <1>2, <1>3, BatchesExist DEF Batches, LastBatch
<1>8. CountsOK'
  BY <1>1, <1>2, <1>4, <1>5, <1>7 DEF CountsOK, Batches, BatchCount
<1>9. OncePerRun'
  BY <1>1, <1>3, <1>4, <1>5 DEF OncePerRun, CountsOK, Batches, BatchCount
<1>10. SubmitOK' /\ RunOK'
  <2>1. SubmitOK'
    BY <1>2 DEF SubmitOK
  <2>2. ASSUME NEW k \in Batches, Running', k >= batch'
        PROVE  batchPaid'[k] + 1 <= runs'
    <3>1. at' = "build" /\ batch' = batch + 1
      BY <1>2, <2>2 DEF Running
    <3>2. k \in Int /\ batch \in Int
      BY <1>3, BatchesExist DEF Batches
    <3>3. k > batch /\ k # batch
      BY <2>2, <3>1, <3>2
    <3>4. batchPaid[k] + 1 <= runs
      BY <1>1, <1>4, <3>2, <3>3 DEF RunOK, Ahead, Running
    <3> QED BY <1>1, <1>5, <3>3, <3>4
  <2> QED BY <2>1, <2>2 DEF RunOK, Ahead, Batches, BatchCount
<1>11. Alone'
  <2>1. SUFFICES ASSUME Running', batch' > 0
                 PROVE  batchPaid'[batch'] < batchPaid'[batch' - 1]
    BY <1>6 DEF Alone
  <2>2. batch' = batch + 1 /\ batch \in Int
    BY <1>2, <1>3, <2>1, BatchesExist DEF Running, Batches
  <2>3. batchPaid[batch'] <= batchPaid[batch]
    BY <1>4, <1>7, <2>1, <2>2 DEF BatchesInOrder
  <2>4. batchPaid'[batch'] = batchPaid[batch'] /\ batch' - 1 = batch
    BY <1>5, <1>7, <2>2
  <2>5. batchPaid[batch'] \in Nat /\ batchPaid[batch] \in Nat
    BY <1>3, <1>4, <1>7 DEF CountsOK
  <2> QED BY <1>5, <2>3, <2>4, <2>5
<1> QED BY <1>5, <1>6, <1>8, <1>9, <1>10, <1>11 DEF IInv
LEMMA FeeKeeps == IInv /\ FeeRejected => IInv'
<1> SUFFICES ASSUME IInv, FeeRejected PROVE IInv'
  OBVIOUS
<1>1. /\ at = "submit" /\ at' \in {"build", "idle"}
      /\ UNCHANGED <<batch, runs, seq, batchPaid, inflight>>
  BY DEF FeeRejected, ledger
<1>2. CountsOK' /\ SubmitOK'
  BY <1>1 DEF IInv, CountsOK, SubmitOK, Batches, BatchCount
<1>3. ASSUME NEW t \in inflight PROVE Follows(t)' /\ Counts(t)'
  <2>1. Follows(t) /\ Counts(t) /\ runs \in Nat /\ batchPaid \in [Batches -> Nat]
    BY <1>3 DEF IInv, InFlightOK, CountsOK
  <2>2. Follows(t)'
    BY <1>1, <2>1 DEF Follows, Batches, BatchCount
  <2>3. Counts(t)'
    BY <1>1, <2>1 DEF Counts, Missing, Running, Follows
  <2> QED BY <2>2, <2>3
<1>4. Alone' /\ RunOK'
  BY <1>1 DEF IInv, Alone, RunOK, Ahead, Running, Batches, BatchCount
<1>5. OncePerRun' /\ BatchesInOrder'
  BY <1>1 DEF IInv, OncePerRun, BatchesInOrder, Batches, BatchCount
<1> QED BY <1>1, <1>2, <1>3, <1>4, <1>5 DEF IInv, InFlightOK

(* A failed submission: refused, left in flight, or applied without an answer. *)
LEMMA ThrowsKeeps == IInv /\ SubmitThrows => IInv'
<1> SUFFICES ASSUME IInv, SubmitThrows PROVE IInv'
  OBVIOUS
<1>1. at = "submit" /\ at' = "idle" /\ UNCHANGED <<batch, runs>>
  BY DEF SubmitThrows
<1>2. SubmitOK' /\ Alone' /\ RunOK'
  BY <1>1 DEF SubmitOK, Alone, RunOK, Ahead, Running
<1>3. CASE UNCHANGED <<seq, batchPaid>> /\ inflight' \subseteq inflight \cup {tx}
  <2>1. CountsOK' /\ OncePerRun' /\ BatchesInOrder'
    BY <1>1, <1>3 DEF IInv, CountsOK, OncePerRun, BatchesInOrder, Batches, BatchCount
  <2>2. ASSUME NEW t \in inflight PROVE Follows(t)' /\ Counts(t)'
    <3>1. Follows(t) /\ Counts(t) /\ runs \in Nat /\ batchPaid \in [Batches -> Nat]
      BY <2>2 DEF IInv, InFlightOK, CountsOK
    <3>2. Follows(t)'
      BY <1>3, <3>1 DEF Follows, Batches, BatchCount
    <3>3. Counts(t)'
      BY <1>1, <1>3, <3>1 DEF Counts, Missing, Running, Follows
    <3> QED BY <3>2, <3>3
  <2>3. Follows(tx)
    <3>1. tx.seq \in Nat /\ tx.seq <= seq + 1 /\ tx.batch = batch /\ batch \in Batches
      BY <1>1 DEF IInv, SubmitOK, CountsOK
    <3>2. batch > 0 => batchPaid[batch] < batchPaid[batch - 1]
      BY <1>1 DEF IInv, Alone, Running
    <3> QED BY <3>1, <3>2 DEF Follows
  <2>4. batchPaid[tx.batch] + 1 <= runs
    <3>1. tx.batch = batch /\ batch \in Batches /\ batch \in Int
      BY <1>1, BatchesExist DEF IInv, SubmitOK, CountsOK, Batches
    <3> QED BY <1>1, <3>1 DEF IInv, RunOK, Ahead, Running
  <2>5. \A t \in inflight' :
           /\ t.seq \in Nat /\ t.batch \in Batches /\ t.seq <= seq + 1
           /\ t.seq = seq + 1 /\ t.batch > 0 => batchPaid[t.batch] < batchPaid[t.batch - 1]
           /\ t.seq = seq + 1 => batchPaid[t.batch] + 1 <= runs
    <3>1. \A t \in inflight : t.seq = seq + 1 => batchPaid[t.batch] + 1 <= runs
      BY <1>1, <1>3, <2>2 DEF Counts, Missing, Running
    <3>2. \A t \in inflight : Follows(t)
      BY DEF IInv, InFlightOK
    <3> QED BY <1>3, <2>3, <2>4, <3>1, <3>2 DEF Follows
  <2>6. InFlightOK'
    BY <1>1, <1>3, <2>5 DEF InFlightOK, Follows, Counts, Missing, Running, Batches, BatchCount
  <2> QED BY <1>2, <2>1, <2>6 DEF IInv
<1>4. CASE Valid(tx) /\ Apply(tx) /\ UNCHANGED inflight
  <2>1. seq' = seq + 1 /\ batchPaid' = [batchPaid EXCEPT ![batch] = @ + 1]
    BY <1>1, <1>4, SubmitReady DEF Apply
  <2>2. /\ batch \in Batches /\ batchPaid[batch] + 1 <= runs
        /\ batch > 0 => batchPaid[batch] < batchPaid[batch - 1]
    BY <1>1, <1>4, SubmitReady
  <2>3. CountsOK /\ BatchesInOrder /\ OncePerRun /\ InFlightOK
    BY DEF IInv
  <2>4. /\ batchPaid' \in [Batches -> Nat] /\ batchPaid'[batch] = batchPaid[batch] + 1
        /\ \A k \in Batches : k # batch => batchPaid'[k] = batchPaid[k]
        /\ BatchesInOrder'
    BY <2>1, <2>2, <2>3, PayKeeps
  <2>5. InFlightOK'
    BY <1>4, <2>1, <2>3, SpentSequence DEF CountsOK
  <2>6. CountsOK' /\ OncePerRun'
    BY <1>1, <2>1, <2>2, <2>3, <2>4 DEF CountsOK, OncePerRun, Batches, BatchCount
  <2> QED BY <1>2, <2>4, <2>5, <2>6 DEF IInv
<1> QED BY <1>3, <1>4 DEF SubmitThrows, ledger

(* A transaction of an earlier run is applied or dropped by the network. *)
LEMMA LateKeeps == ASSUME IInv, NEW t \in inflight, ApplyLate(t) PROVE IInv'
<1>1. UNCHANGED <<at, batch, tx, runs>> /\ inflight' = inflight \ {t}
  BY DEF ApplyLate
<1>2. /\ CountsOK /\ BatchesInOrder /\ OncePerRun /\ InFlightOK /\ RunOK /\ Alone /\ SubmitOK
      /\ Follows(t) /\ Counts(t)
  BY DEF IInv, InFlightOK
<1>3. CASE UNCHANGED ledger
  <2>1. UNCHANGED <<seq, batchPaid>>
    BY <1>3 DEF ledger
  <2>2. CountsOK' /\ OncePerRun' /\ BatchesInOrder' /\ SubmitOK'
    BY <1>1, <1>2, <2>1 DEF CountsOK, OncePerRun, BatchesInOrder, SubmitOK, Batches, BatchCount
  <2>3. InFlightOK' /\ Alone' /\ RunOK'
    BY <1>1, <1>2, <2>1 DEF InFlightOK, Follows, Counts, Missing, Alone, RunOK, Ahead,
                            Running, Batches, BatchCount
  <2> QED BY <2>2, <2>3 DEF IInv
<1>4. CASE Valid(t) /\ Apply(t)
  <2>1. /\ seq' = seq + 1 /\ batchPaid' = [batchPaid EXCEPT ![t.batch] = @ + 1]
        /\ t.seq = seq + 1 /\ t.batch \in Batches
        /\ t.batch > 0 => batchPaid[t.batch] < batchPaid[t.batch - 1]
    BY <1>2, <1>4 DEF Apply, Valid, Follows
  <2>2. /\ batchPaid' \in [Batches -> Nat] /\ batchPaid'[t.batch] = batchPaid[t.batch] + 1
        /\ \A k \in Batches : k # t.batch => batchPaid'[k] = batchPaid[k]
        /\ BatchesInOrder'
    BY <1>2, <2>1, PayKeeps
  <2>3. InFlightOK'
    BY <1>1, <1>2, <2>1, SpentSequence DEF CountsOK
  <2>4. batchPaid[t.batch] + Missing <= runs
    BY <1>2, <2>1 DEF Counts
  <2>5. CountsOK' /\ SubmitOK'
    BY <1>1, <1>2, <2>1, <2>2 DEF CountsOK, SubmitOK, Batches, BatchCount
  <2>6. Alone'
    <3>1. ~(Running /\ batch > 0)
      BY <1>2, <2>1 DEF Alone, CountsOK
    <3> QED BY <1>1, <3>1 DEF Alone, Running
  <2>7. batchPaid[t.batch] \in Nat /\ runs \in Nat
    BY <1>2, <2>1 DEF CountsOK
  <2>8. OncePerRun'
    <3>1. batchPaid'[t.batch] <= runs
      BY <2>2, <2>4, <2>7 DEF Missing
    <3> QED BY <1>1, <1>2, <2>2, <3>1 DEF OncePerRun, Batches, BatchCount
  <2>9. RunOK'
    <3>1. ASSUME NEW k \in Batches, Running, k >= batch PROVE batchPaid'[k] + 1 <= runs
      <4>1. CASE k = t.batch
        BY <2>2, <2>4, <2>7, <3>1, <4>1 DEF Missing
      <4>2. CASE k # t.batch
        BY <1>2, <2>2, <3>1, <4>2 DEF RunOK, Ahead
      <4> QED BY <4>1, <4>2
    <3> QED BY <1>1, <3>1 DEF RunOK, Ahead, Running, Batches, BatchCount
  <2> QED BY <2>2, <2>3, <2>5, <2>6, <2>8, <2>9 DEF IInv
<1> QED BY <1>3, <1>4 DEF ApplyLate

(* Steps that leave the counts and the current run alone. *)
LEMMA OthersKeep ==
  ASSUME IInv, UNCHANGED <<batch, tx, runs, seq, batchPaid, inflight>>,
         at' = at \/ (at = "commit" /\ at' \in {"idle", "done"})
  PROVE  IInv'
<1>1. CountsOK' /\ OncePerRun' /\ BatchesInOrder' /\ SubmitOK'
  BY DEF IInv, CountsOK, OncePerRun, BatchesInOrder, SubmitOK, Batches, BatchCount
<1>2. Running' <=> Running
  BY DEF Running
<1>3. InFlightOK' /\ Alone' /\ RunOK'
  BY <1>2 DEF IInv, InFlightOK, Follows, Counts, Missing, Alone, RunOK, Ahead, Batches, BatchCount
<1> QED BY <1>1, <1>3 DEF IInv

LEMMA NextIInv == IInv /\ [Next]_vars => IInv'
<1> SUFFICES ASSUME IInv, [Next]_vars PROVE IInv'
  OBVIOUS
<1>1. CASE StartRelease
  BY <1>1, StartKeeps
<1>2. CASE BuildTx
  BY <1>2, BuildKeeps
<1>3. CASE Submitted
  BY <1>3, SubmittedKeeps
<1>4. CASE FeeRejected
  BY <1>4, FeeKeeps
<1>5. CASE SubmitThrows
  BY <1>5, ThrowsKeeps
<1>6. CASE CommitRows
  <2>1. /\ at = "commit" /\ at' \in {"idle", "done"}
        /\ UNCHANGED <<batch, tx, runs, seq, batchPaid, inflight>>
    BY <1>6 DEF CommitRows, ledger
  <2> QED BY <2>1, OthersKeep
<1>7. CASE \E t \in inflight : ApplyLate(t)
  BY <1>7, LateKeeps
<1>8. CASE \E i \in Investors : ChangeTrust(i)
  <2>1. at' = at /\ UNCHANGED <<batch, tx, runs, seq, batchPaid, inflight>>
    BY <1>8 DEF ChangeTrust
  <2> QED BY <2>1, OthersKeep
<1>9. CASE UNCHANGED vars
  <2>1. at' = at /\ UNCHANGED <<batch, tx, runs, seq, batchPaid, inflight>>
    BY <1>9 DEF vars, ledger
  <2> QED BY <2>1, OthersKeep
<1> QED BY <1>1, <1>2, <1>3, <1>4, <1>5, <1>6, <1>7, <1>8, <1>9 DEF Next

-----------------------------------------------------------------------------
(* releaseEscrow pays a batch at most once per run, for any number of       *)
(* investors, batches and runs, whatever times out or is applied late.      *)
THEOREM OncePerRunHolds == Spec => []OncePerRun
<1>1. IInv => OncePerRun
  BY DEF IInv
<1> QED BY InitIInv, NextIInv, <1>1, PTL DEF Spec

(* Over all runs together, a later batch is never paid more often than an   *)
(* earlier one: the payments of releaseEscrow go down the list in order.    *)
THEOREM BatchesInOrderHolds == Spec => []BatchesInOrder
<1>1. IInv => BatchesInOrder
  BY DEF IInv
<1> QED BY InitIInv, NextIInv, <1>1, PTL DEF Spec
-----------------------------------------------------------------------------
(* The amounts.  First what calculateReleasePlan and the shares add up to.  *)

(* Division by a positive number, as the provers need it. *)
LEMMA Division ==
  ASSUME NEW a \in Int, NEW b \in Nat \ {0}
  PROVE  /\ a \div b \in Int
         /\ b * (a \div b) <= a /\ a < b * (a \div b) + b
<1> DEFINE q == a \div b
           r == a % b
<1>1. q \in Int /\ r \in 0..(b - 1) /\ a = b * q + r
  OBVIOUS
<1> QED BY <1>1

(* Multiples of a positive number compare as their factors do. *)
LEMMA Factors ==
  ASSUME NEW b \in Nat \ {0}, NEW p \in Int, NEW q \in Int, b * p < b * q + b
  PROVE  p <= q
<1>1. SUFFICES ASSUME p >= q + 1 PROVE FALSE
  OBVIOUS
<1>2. b * p >= b * (q + 1)
  BY <1>1
<1>3. b * (q + 1) = b * q + b
  OBVIOUS
<1>4. b * p \in Int /\ b * q \in Int /\ b * (q + 1) \in Int
  OBVIOUS
<1> QED BY <1>2, <1>3, <1>4

LEMMA QuotientNat ==
  ASSUME NEW a \in Nat, NEW b \in Nat \ {0} PROVE a \div b \in Nat
<1>1. a \div b \in Int /\ a < b * (a \div b) + b
  BY Division
<1>2. b * 0 < b * (a \div b) + b
  BY <1>1
<1>3. 0 <= a \div b
  BY <1>1, <1>2, Factors
<1> QED BY <1>1, <1>3

LEMMA Monotone ==
  ASSUME NEW a \in Int, NEW c \in Int, a <= c, NEW b \in Nat \ {0}
  PROVE  a \div b <= c \div b
<1>1. a \div b \in Int /\ c \div b \in Int /\ b * (a \div b) <= a /\ c < b * (c \div b) + b
  BY Division
<1>2. b * (a \div b) \in Int /\ b * (c \div b) + b \in Int
  BY <1>1
<1>3. b * (a \div b) < b * (c \div b) + b
  BY <1>1, <1>2
<1> QED BY <1>1, <1>3, Factors

LEMMA NextQuotient ==
  ASSUME NEW a \in Int, NEW b \in Nat \ {0}
  PROVE  (a + b) \div b = (a \div b) + 1
<1> DEFINE p == (a + b) \div b
           q == a \div b
<1>1. /\ p \in Int /\ b * p <= a + b /\ a + b < b * p + b
      /\ q \in Int /\ b * q <= a /\ a < b * q + b
  BY Division
<1> HIDE DEF p, q
<1>2. b * (q + 1) = b * q + b /\ b * p \in Int /\ b * q \in Int
  BY <1>1
<1>3. b * (q + 1) < b * p + b
  BY <1>1, <1>2
<1>4. b * p < b * (q + 1) + b
  BY <1>1, <1>2
<1>5. q + 1 <= p
  BY <1>1, <1>3, Factors
<1>6. p <= q + 1
  BY <1>1, <1>4, Factors
<1>7. p = q + 1
  BY <1>1, <1>5, <1>6
<1> QED BY <1>7 DEF p, q

(* The platform takes its 2% and leaves a natural number for the investors. *)
LEMMA PoolType ==
  /\ PlatformStroops \in Nat /\ InvestorPool \in Nat
  /\ TotalValue = PlatformStroops + InvestorPool
<1>1. TotalValue \in Nat
  BY ReleaseAssumption
<1>2. ASSUME NEW n \in Nat PROVE (n * 2) \div 100 \in Nat /\ (n * 2) \div 100 <= n
  OBVIOUS
<1> QED BY <1>1, <1>2 DEF PlatformStroops, InvestorPool

LEMMA SumIsTotal == ASSUME NEW S, NEW f PROVE SumOver(S, f) = Total(f, S)
BY DEF SumOver, Total

LEMMA InvestorsType ==
  /\ IsFiniteSet(Investors) /\ Len(Tokens) \in Investors /\ Investors \subseteq Nat \ {0}
  /\ \A i \in Investors : Tokens[i] \in Nat \ {0}
  /\ TotalTokens \in Nat \ {0}
<1>1. Len(Tokens) \in Nat \ {0} /\ Tokens \in Seq(Nat \ {0})
  BY ReleaseAssumption
<1>2. /\ Len(Tokens) \in Investors /\ Investors \subseteq Nat \ {0}
      /\ \A i \in Investors : Tokens[i] \in Nat \ {0}
  BY <1>1 DEF Investors
<1>3. IsFiniteSet(Investors)
  BY <1>1, FS_Interval DEF Investors
<1>4. \A i \in Investors : Tokens[i] \in Nat
  BY <1>2
<1>5. Total(Tokens, Investors) \in Nat /\ Tokens[Len(Tokens)] <= Total(Tokens, Investors)
  BY <1>2, <1>3, <1>4, TotalNat
<1>6. TotalTokens = Total(Tokens, Investors)
  BY SumIsTotal DEF TotalTokens
<1>7. TotalTokens \in Nat \ {0}
  BY <1>2, <1>5, <1>6
<1> QED BY <1>2, <1>3, <1>7

(* A rounded share is a natural number, also when floating point misses it. *)
LEMMA FloorsType == \A i \in Investors : FloorShare[i] \in Nat
<1> SUFFICES ASSUME NEW i \in Investors PROVE FloorShare[i] \in Nat
  OBVIOUS
<1>1. Tokens[i] \in Nat /\ InvestorPool \in Nat /\ TotalTokens \in Nat \ {0}
  BY InvestorsType, PoolType
<1>2. Tokens[i] * InvestorPool \in Nat
  BY <1>1
<1>3. (Tokens[i] * InvestorPool) \div TotalTokens \in Nat
  BY <1>1, <1>2, QuotientNat
<1>4. Drift[i] \in Int /\ FloorShare[i] >= 0
  BY DriftAssumption
<1>5. FloorShare[i] = ((Tokens[i] * InvestorPool) \div TotalTokens) + Drift[i]
  BY DEF FloorShare, ExactShare
<1> QED BY <1>3, <1>4, <1>5

Others == Investors \ {LastInvestor}
Rest == InvestorPool - Total(FloorShare, Others)

(* The last investor has what the others leave, if they leave anything. *)
LEMMA SharesType ==
  /\ \A i \in Investors : Share(i) \in Nat
  /\ \A i \in Others : Share(i) = FloorShare[i]
  /\ LastInvestor \in Investors /\ IsFiniteSet(Others)
  /\ Rest \in Int /\ Share(LastInvestor) = IF Rest > 0 THEN Rest ELSE 0
<1>1. LastInvestor \in Investors /\ IsFiniteSet(Investors)
  BY InvestorsType DEF LastInvestor
<1>2. IsFiniteSet(Others) /\ Others \in SUBSET Investors
  BY <1>1, FS_Subset DEF Others
<1>3. \A i \in Others : Share(i) = FloorShare[i]
  BY DEF Share, Others
<1>4. Total(FloorShare, Others) \in Nat
  BY <1>2, FloorsType, TotalNat
<1>5. Rest \in Int
  BY <1>4, PoolType DEF Rest
<1>6. Share(LastInvestor) = IF Rest > 0 THEN Rest ELSE 0
  BY SumIsTotal DEF Share, Rest, Others
<1>7. \A i \in Investors : i \in Others \/ i = LastInvestor
  BY DEF Others
<1>8. \A i \in Investors : Share(i) \in Nat
  BY <1>3, <1>5, <1>6, <1>7, FloorsType
<1> QED BY <1>1, <1>2, <1>3, <1>5, <1>6, <1>8

(* Every investor is in one of the batches, the last one in the last batch. *)
LEMMA BatchesCover ==
  /\ \A i \in Investors : BatchOf(i) \in Nat /\ BatchOf(i) <= LastBatch
  /\ BatchOf(Len(Tokens)) = LastBatch /\ LastBatch \in Nat
<1> DEFINE n == Len(Tokens)
<1>1. n \in Nat \ {0} /\ BatchSize \in Nat \ {0} /\ n - 1 \in Nat
  BY ReleaseAssumption
<1>2. ((n - 1) + BatchSize) \div BatchSize = ((n - 1) \div BatchSize) + 1
  <2>1. \A a \in Int : \A b \in Nat \ {0} : (a + b) \div b = (a \div b) + 1
    BY NextQuotient
  <2>2. n - 1 \in Int
    BY <1>1
  <2> QED BY <1>1, <2>1, <2>2, Zenon
<1>3. (n - 1) + BatchSize = n + BatchSize - 1
  BY <1>1
<1>4. (n - 1) \div BatchSize \in Nat
  BY <1>1, QuotientNat
<1>5. LastBatch = (n - 1) \div BatchSize
  BY <1>2, <1>3, <1>4 DEF LastBatch, BatchCount
<1>6. ASSUME NEW i \in Investors PROVE BatchOf(i) \in Nat /\ BatchOf(i) <= LastBatch
  <2>1. i \in Nat /\ i - 1 \in Nat /\ i - 1 <= n - 1
    BY <1>1 DEF Investors
  <2>2. (i - 1) \div BatchSize \in Nat
    BY <1>1, <2>1, QuotientNat
  <2>3. (i - 1) \div BatchSize <= (n - 1) \div BatchSize
    BY <1>1, <2>1, Monotone
  <2> QED BY <1>5, <2>2, <2>3 DEF BatchOf
<1> QED BY <1>4, <1>5, <1>6 DEF BatchOf

-----------------------------------------------------------------------------
(* What has been paid.  Nothing leaves the escrow but to the investors and  *)
(* the platform; and in a first run each batch that is done has its shares, *)
(* nothing is in flight, and the running total is the sum of the shares up  *)
(* to the current batch, or too large once a transaction was built again:   *)
(* which only the last investor's payment is computed from.                 *)

Amounts == [Investors -> Nat]

AmountsOK ==
    /\ tx.amount \in Amounts /\ \A t \in inflight : t.amount \in Amounts
    /\ distributed \in Int /\ escrow \in Nat /\ fee \in Nat /\ paid \in Amounts

Conserved == escrow = TotalValue - fee - SumOver(Investors, paid)

\* Settles, with rebuilt as a parameter.
SettlesIf(r, i, amount) ==
    amount = Share(i) \/ (r /\ i = LastInvestor /\ amount \in 0..Share(i))

\* Of the amounts f, those of the investors in S are settled, the others nothing.
Settled(r, f, S) == \A i \in Investors : IF i \in S THEN SettlesIf(r, i, f[i]) ELSE f[i] = 0

\* The running total d holds the shares of S, some of them twice after a rebuild.
Totals(r, d, S) ==
    \/ d = SumOver(S, FloorShare)
    \/ r /\ (d >= SumOver(S, FloorShare) \/ d >= InvestorPool)

Before(k) == {i \in Investors : BatchOf(i) < k}
NothingPaid == fee = 0 /\ \A i \in Investors : paid[i] = 0

NotStarted == runs = 0 => at = "idle" /\ inflight = {} /\ NothingPaid
RecordedDone == recorded => at = "done"

FirstRun == runs = 1 /\ at # "idle"

Building ==
    at = "build" =>
        /\ fee = 0 /\ Settled(rebuilt, paid, Before(batch))
        /\ Totals(rebuilt, distributed, Before(batch))
Submitting ==
    at = "submit" =>
        /\ fee = 0 /\ Settled(rebuilt, paid, Before(batch))
        /\ Settled(rebuilt, tx.amount, InBatch(batch))
        /\ IF batch = LastBatch THEN distributed = InvestorPool
                                ELSE Totals(rebuilt, distributed, Before(batch + 1))
Released ==
    at \in {"commit", "done"} => fee = PlatformStroops /\ Settled(rebuilt, paid, Investors)

Progress == FirstRun => inflight = {} /\ Building /\ Submitting /\ Released

MoneyInv == AmountsOK /\ Conserved /\ NotStarted /\ RecordedDone /\ Progress

(* A transaction is applied: what it takes from the escrow is received. *)
LEMMA ApplyConserves ==
  ASSUME AmountsOK, Conserved, NEW t, t.amount \in Amounts, Valid(t), Apply(t)
  PROVE  /\ escrow' \in Nat /\ fee' \in Nat /\ paid' \in Amounts /\ Conserved'
         /\ fee' = fee + PlatformPart(t)
         /\ \A i \in Investors : paid'[i] = paid[i] + t.amount[i]
<1> DEFINE c == Total(t.amount, Investors)
           p == Total(paid, Investors)
           q == Total(paid', Investors)
           f == PlatformPart(t)
<1>1. IsFiniteSet(Investors) /\ TotalValue \in Nat
  BY InvestorsType, ReleaseAssumption
<1>2. /\ \A i \in Investors : t.amount[i] \in Nat /\ paid[i] \in Nat
      /\ \A i \in Investors : t.amount[i] \in Int /\ paid[i] \in Int
  BY DEF AmountsOK, Amounts
<1>3. /\ paid' = [i \in Investors |-> paid[i] + t.amount[i]]
      /\ escrow' = escrow - Cost(t) /\ fee' = fee + f
  BY DEF Apply
<1>4. \A i \in Investors : paid'[i] = paid[i] + t.amount[i]
  BY <1>3
<1>5. paid' \in Amounts
  BY <1>2, <1>3 DEF Amounts
<1>6. q = p + c
  BY <1>1, <1>2, <1>4, TotalPlus
<1>7. c \in Nat /\ p \in Nat
  BY <1>1, <1>2, TotalNat
<1>8. f \in Nat
  BY PoolType DEF PlatformPart
<1>9. Cost(t) = c + f /\ Cost(t) <= escrow
  BY SumIsTotal DEF Cost, Valid
<1>10. escrow \in Nat /\ fee \in Nat /\ escrow = TotalValue - fee - p
  BY SumIsTotal DEF AmountsOK, Conserved
<1> HIDE DEF c, p, q, f
<1>11. escrow' \in Nat /\ fee' \in Nat
  BY <1>3, <1>7, <1>8, <1>9, <1>10
<1>12. escrow' = TotalValue - fee' - q
  <2>1. escrow' = escrow - (c + f) /\ fee' = fee + f
    BY <1>3, <1>9
  <2>2. ASSUME NEW e \in Nat, NEW e1 \in Nat, NEW g \in Nat, NEW g1 \in Nat, NEW v \in Nat,
               NEW cc \in Nat, NEW ff \in Nat, NEW pp \in Nat, NEW qq, qq = pp + cc,
               e = v - g - pp, e1 = e - (cc + ff), g1 = g + ff
        PROVE  e1 = v - g1 - qq
    BY <2>2
  <2> QED BY <1>1, <1>6, <1>7, <1>8, <1>10, <1>11, <2>1, <2>2
<1>13. Conserved'
  <2>1. SumOver(Investors, paid)' = q
    BY DEF q, Total, SumOver, Investors, MapThenSumSet, MapThenFoldSet
  <2> QED BY <1>12, <2>1 DEF Conserved
<1> QED BY <1>3, <1>4, <1>5, <1>11, <1>13 DEF f

(* Nobody is in a batch before the first, everybody in one up to the last. *)
LEMMA BeforeEnds ==
  /\ Before(0) = {} /\ Before(LastBatch + 1) = Investors
  /\ \A k \in Batches : /\ Before(k) \in SUBSET Investors /\ InBatch(k) \in SUBSET Investors
                        /\ Before(k) \cap InBatch(k) = {}
                        /\ Before(k + 1) = Before(k) \cup InBatch(k)
<1>1. \A i \in Investors : BatchOf(i) \in Nat /\ BatchOf(i) <= LastBatch
  BY BatchesCover
<1>2. LastBatch \in Nat /\ \A k \in Batches : k \in Nat
  BY BatchesCover, BatchesExist DEF Batches
<1>3. \A i \in Investors : ~(BatchOf(i) < 0) /\ BatchOf(i) < LastBatch + 1
  BY <1>1, <1>2
<1>4. ASSUME NEW k \in Batches
      PROVE  /\ Before(k) \in SUBSET Investors /\ InBatch(k) \in SUBSET Investors
             /\ Before(k) \cap InBatch(k) = {}
             /\ Before(k + 1) = Before(k) \cup InBatch(k)
  <2>1. \A i \in Investors : /\ ~(BatchOf(i) < k /\ BatchOf(i) = k)
                            /\ BatchOf(i) < k + 1 <=> BatchOf(i) < k \/ BatchOf(i) = k
    BY <1>1, <1>2
  <2> QED BY <2>1 DEF Before, InBatch
<1> QED BY <1>3, <1>4 DEF Before

LEMMA InitMoney == Init => MoneyInv
<1> SUFFICES ASSUME Init PROVE MoneyInv
  OBVIOUS
<1>1. AmountsOK
  BY ReleaseAssumption DEF Init, AmountsOK, Amounts, NoTx
<1>2. \A i \in Investors : paid[i] = 0
  BY DEF Init
<1>3. SumOver(Investors, paid) = 0
  BY <1>2, InvestorsType, TotalZero, SumIsTotal
<1>4. Conserved
  BY <1>3, ReleaseAssumption DEF Init, Conserved
<1>5. NotStarted
  BY <1>2 DEF Init, NotStarted, NothingPaid
<1> QED BY <1>1, <1>4, <1>5 DEF Init, MoneyInv, RecordedDone, Progress, FirstRun

(* Steps that move no money. *)
LEMMA StillMoney ==
  ASSUME AmountsOK, Conserved, UNCHANGED <<escrow, fee, paid, distributed, tx, inflight>>
  PROVE  AmountsOK' /\ Conserved'
<1>1. AmountsOK'
  BY DEF AmountsOK, Amounts, Investors
<1>2. Conserved'
  BY DEF Conserved, SumOver, Investors, MapThenSumSet, MapThenFoldSet
<1> QED BY <1>1, <1>2

(* The next-state values of the parts, with the constant ones unprimed. *)
LEMMA ProgressNext ==
  /\ NotStarted' <=>
       (runs' = 0 => /\ at' = "idle" /\ inflight' = {} /\ fee' = 0
                     /\ \A i \in Investors : paid'[i] = 0)
  /\ Building' <=>
       (at' = "build" =>
          /\ fee' = 0 /\ Settled(rebuilt', paid', Before(batch'))
          /\ Totals(rebuilt', distributed', Before(batch')))
  /\ Submitting' <=>
       (at' = "submit" =>
          /\ fee' = 0 /\ Settled(rebuilt', paid', Before(batch'))
          /\ Settled(rebuilt', tx'.amount, InBatch(batch'))
          /\ IF batch' = LastBatch THEN distributed' = InvestorPool
                                   ELSE Totals(rebuilt', distributed', Before(batch' + 1)))
  /\ Released' <=>
       (at' \in {"commit", "done"} =>
          fee' = PlatformStroops /\ Settled(rebuilt', paid', Investors))
<1> USE DEF Settled, SettlesIf, Totals, Share, SumOver, FloorShare, ExactShare, Investors,
            LastInvestor, InvestorPool, TotalTokens, BatchOf, InBatch, PlatformStroops, LastBatch,
            BatchCount, Before, MapThenSumSet, MapThenFoldSet
<1>1. NotStarted' <=>
       (runs' = 0 => /\ at' = "idle" /\ inflight' = {} /\ fee' = 0
                     /\ \A i \in Investors : paid'[i] = 0)
  BY DEF NotStarted, NothingPaid
<1>2. Building' <=>
       (at' = "build" =>
          /\ fee' = 0 /\ Settled(rebuilt', paid', Before(batch'))
          /\ Totals(rebuilt', distributed', Before(batch')))
  BY DEF Building
<1>3. Submitting' <=>
       (at' = "submit" =>
          /\ fee' = 0 /\ Settled(rebuilt', paid', Before(batch'))
          /\ Settled(rebuilt', tx'.amount, InBatch(batch'))
          /\ IF batch' = LastBatch THEN distributed' = InvestorPool
                                   ELSE Totals(rebuilt', distributed', Before(batch' + 1)))
  BY DEF Submitting
<1>4. Released' <=>
       (at' \in {"commit", "done"} =>
          fee' = PlatformStroops /\ Settled(rebuilt', paid', Investors))
  BY DEF Released
<1> QED BY <1>1, <1>2, <1>3, <1>4

LEMMA StartMoney == ASSUME IInv, MoneyInv, StartRelease PROVE MoneyInv'
<1>1. /\ runs' = runs + 1 /\ at' = "build" /\ batch' = 0 /\ distributed' = 0 /\ ~recorded
      /\ UNCHANGED <<tx, inflight, recorded, rebuilt, escrow, fee, paid>>
  BY DEF StartRelease, ledger
<1>2. runs \in Nat
  BY DEF IInv, CountsOK
<1>3. AmountsOK' /\ Conserved'
  <2>1. AmountsOK'
    BY <1>1 DEF MoneyInv, AmountsOK, Amounts, Investors
  <2>2. Conserved'
    BY <1>1 DEF MoneyInv, Conserved, SumOver, Investors, MapThenSumSet, MapThenFoldSet
  <2> QED BY <2>1, <2>2
<1>4. NotStarted'
  BY <1>1, <1>2, ProgressNext
<1>5. RecordedDone'
  BY <1>1 DEF RecordedDone
<1>6. ASSUME FirstRun' PROVE (inflight = {})' /\ Building' /\ Submitting' /\ Released'
  <2>1. runs = 0
    BY <1>1, <1>2, <1>6 DEF FirstRun
  <2>2. inflight = {} /\ fee = 0 /\ \A i \in Investors : paid[i] = 0
    BY <2>1 DEF MoneyInv, NotStarted, NothingPaid
  <2>3. Before(batch') = {} /\ SumOver({}, FloorShare) = 0
    BY <1>1, BeforeEnds, TotalEmpty, SumIsTotal
  <2>4. Settled(rebuilt', paid', {}) /\ Totals(rebuilt', distributed', {})
    BY <1>1, <2>2, <2>3 DEF Settled, Totals
  <2>5. Building'
    BY <1>1, <2>2, <2>3, <2>4, ProgressNext
  <2>6. Submitting' /\ Released'
    BY <1>1, ProgressNext
  <2> QED BY <1>1, <2>2, <2>5, <2>6
<1>7. Progress'
  BY <1>6 DEF Progress
<1> QED BY <1>3, <1>4, <1>5, <1>7 DEF MoneyInv

LEMMA FloorsOfParts ==
  \A A, B \in SUBSET Investors :
     A \cap B = {} => Total(FloorShare, A \cup B) = Total(FloorShare, A) + Total(FloorShare, B)
<1>1. IsFiniteSet(Investors) /\ \A i \in Investors : FloorShare[i] \in Int
  BY InvestorsType, FloorsType
<1> QED BY <1>1, TotalUnion

(* The shares of the current batch but the last investor's.  *)
Floored == {j \in InBatch(batch) : j < LastInvestor}

LEMMA FlooredSum ==
  ASSUME batch \in Batches
  PROVE  /\ Floored \in SUBSET Investors /\ Total(FloorShare, Floored) \in Nat
         /\ Total(FloorShare, Before(batch)) \in Nat
         /\ Distributed(LastInvestor) = distributed + Total(FloorShare, Floored)
         /\ batch = LastBatch =>
              /\ LastInvestor \in InBatch(batch) /\ Floored = InBatch(batch) \ {LastInvestor}
              /\ Total(FloorShare, Others)
                   = Total(FloorShare, Before(batch)) + Total(FloorShare, Floored)
         /\ batch # LastBatch => LastInvestor \notin InBatch(batch) /\ Floored = InBatch(batch)
<1>1. /\ IsFiniteSet(Investors) /\ LastInvestor \in Investors
      /\ \A j \in Investors : j < LastInvestor <=> j # LastInvestor
  <2>1. Len(Tokens) \in Nat
    BY ReleaseAssumption
  <2>2. \A j \in Investors : j \in Nat /\ j <= Len(Tokens)
    BY <2>1 DEF Investors
  <2> QED BY <2>1, <2>2, InvestorsType DEF LastInvestor
<1>2. BatchOf(LastInvestor) = LastBatch
  BY BatchesCover DEF LastInvestor
<1>3. Floored \in SUBSET Investors /\ Before(batch) \in SUBSET Investors
  BY DEF Floored, InBatch, Before
<1>4. IsFiniteSet(Floored) /\ IsFiniteSet(Before(batch))
  BY <1>1, <1>3, FS_Subset
<1>5. Total(FloorShare, Floored) \in Nat /\ Total(FloorShare, Before(batch)) \in Nat
  BY <1>3, <1>4, FloorsType, TotalNat
<1>6. Distributed(LastInvestor) = distributed + Total(FloorShare, Floored)
  BY SumIsTotal DEF Distributed, Floored
<1>7. ASSUME batch = LastBatch
      PROVE  /\ LastInvestor \in InBatch(batch) /\ Floored = InBatch(batch) \ {LastInvestor}
             /\ Total(FloorShare, Others)
                  = Total(FloorShare, Before(batch)) + Total(FloorShare, Floored)
  <2>1. LastInvestor \in InBatch(batch) /\ Floored = InBatch(batch) \ {LastInvestor}
    BY <1>1, <1>2, <1>7 DEF Floored, InBatch
  <2>2. /\ Before(batch) \cap InBatch(batch) = {}
        /\ Before(batch) \cup InBatch(batch) = Investors
    BY <1>7, BeforeEnds
  <2>3. Others = Before(batch) \cup Floored /\ Before(batch) \cap Floored = {}
    BY <1>3, <2>1, <2>2 DEF Others
  <2> QED BY <1>3, <2>1, <2>3, FloorsOfParts
<1>8. ASSUME batch # LastBatch
      PROVE  LastInvestor \notin InBatch(batch) /\ Floored = InBatch(batch)
  BY <1>1, <1>2, <1>8 DEF Floored, InBatch
<1> QED BY <1>3, <1>5, <1>6, <1>7, <1>8

(* The amounts of a transaction settle its batch: before the share of the   *)
(* last investor the running total holds the shares of all the others,      *)
(* whichever batches they are in, or more after a rebuild.                  *)
AmountFor(i) == IF i \in InBatch(batch) /\ ShareStroops(i) > 0 THEN ShareStroops(i) ELSE 0

LEMMA BatchSettled ==
  ASSUME batch \in Batches, distributed \in Int,
         Totals(rebuilt, distributed, Before(batch)), NEW i \in InBatch(batch)
  PROVE  SettlesIf(rebuilt, i, AmountFor(i))
<1>1. i \in Investors
  BY DEF InBatch
<1>2. CASE i # LastInvestor
  <2>1. ShareStroops(i) = FloorShare[i] /\ Share(i) = FloorShare[i] /\ FloorShare[i] \in Nat
    BY <1>1, <1>2, FloorsType DEF ShareStroops, Share, LastInvestor
  <2> QED BY <2>1 DEF AmountFor, SettlesIf
<1>3. CASE i = LastInvestor
  <2> DEFINE e == Total(FloorShare, Floored)
             b == Total(FloorShare, Before(batch))
             x == ShareStroops(i)
  <2>1. batch = LastBatch
    BY <1>3, FlooredSum
  <2>2. e \in Nat /\ b \in Nat /\ InvestorPool \in Nat
    BY FlooredSum, PoolType
  <2>3. x = InvestorPool - (distributed + e)
    BY <1>3, FlooredSum DEF ShareStroops, LastInvestor
  <2>4. Rest = InvestorPool - (b + e)
    BY <2>1, FlooredSum DEF Rest
  <2>5. Share(i) = IF Rest > 0 THEN Rest ELSE 0
    BY <1>3, SharesType
  <2>6. AmountFor(i) = IF x > 0 THEN x ELSE 0
    BY DEF AmountFor
  <2>7. distributed = b \/ (rebuilt /\ (distributed >= b \/ distributed >= InvestorPool))
    BY SumIsTotal DEF Totals
  <2> HIDE DEF e, b, x
  <2>8. CASE distributed = b
    BY <2>2, <2>3, <2>4, <2>5, <2>6, <2>8 DEF SettlesIf
  <2>9. CASE rebuilt /\ distributed >= b
    <3>1. x <= Rest /\ x \in Int /\ Rest \in Int
      BY <2>2, <2>3, <2>4, <2>9
    <3>2. AmountFor(i) \in 0..Share(i)
      BY <2>5, <2>6, <3>1
    <3> QED BY <1>3, <2>9, <3>2 DEF SettlesIf
  <2>10. CASE rebuilt /\ distributed >= InvestorPool
    <3>1. ~(x > 0)
      BY <2>2, <2>3, <2>10
    <3>2. Rest \in Int
      BY <2>2, <2>4
    <3>3. AmountFor(i) \in 0..Share(i)
      BY <2>5, <2>6, <3>1, <3>2
    <3> QED BY <1>3, <2>10, <3>3 DEF SettlesIf
  <2> QED BY <2>7, <2>8, <2>9, <2>10
<1> QED BY <1>2, <1>3

(* The running total after a transaction is built.  *)
LEMMA RunningTotal ==
  ASSUME batch \in Batches, distributed \in Int,
         Totals(rebuilt, distributed, Before(batch)), NEW g,
         \A i \in Investors : g[i] = ShareStroops(i)
  PROVE  IF batch = LastBatch
           THEN distributed + SumOver(InBatch(batch), g) = InvestorPool
           ELSE Totals(rebuilt, distributed + SumOver(InBatch(batch), g), Before(batch + 1))
<1> DEFINE e == Total(FloorShare, Floored)
           b == Total(FloorShare, Before(batch))
           t == Total(g, InBatch(batch))
<1>1. /\ e \in Nat /\ b \in Nat /\ InvestorPool \in Nat
      /\ InBatch(batch) \in SUBSET Investors /\ IsFiniteSet(Investors)
  BY FlooredSum, PoolType, InvestorsType DEF InBatch
<1>2. IsFiniteSet(InBatch(batch)) /\ IsFiniteSet(Floored)
  BY <1>1, FlooredSum, FS_Subset
<1>3. \A i \in Floored : FloorShare[i] \in Int /\ FloorShare[i] = g[i]
  <2>1. ASSUME NEW i \in Floored PROVE i \in Investors /\ i # LastInvestor
    <3>1. LastInvestor \in Nat /\ i \in Investors /\ i < LastInvestor
      BY ReleaseAssumption DEF Floored, InBatch, LastInvestor
    <3> QED BY <3>1
  <2> QED BY <2>1, FloorsType DEF ShareStroops, LastInvestor
<1>4. e = Total(g, Floored)
  BY <1>2, <1>3, TotalSame
<1>5. SumOver(InBatch(batch), g) = t
  BY SumIsTotal
<1>6. CASE batch = LastBatch
  <2>1. /\ LastInvestor \in InBatch(batch) /\ Floored = InBatch(batch) \ {LastInvestor}
        /\ Distributed(LastInvestor) = distributed + e
    BY <1>6, FlooredSum
  <2>2. g[LastInvestor] = InvestorPool - (distributed + e)
    BY <1>1, <2>1 DEF ShareStroops, LastInvestor
  <2>3. \A i \in InBatch(batch) : g[i] \in Int
    <3>1. g[LastInvestor] \in Int
      BY <1>1, <2>2
    <3> QED BY <1>3, <2>1, <3>1
  <2>4. t = g[LastInvestor] + Total(g, InBatch(batch) \ {LastInvestor})
    BY <1>2, <2>1, <2>3, TotalRemove
  <2>5. t = g[LastInvestor] + e
    BY <1>4, <2>1, <2>4
  <2> HIDE DEF e, b, t
  <2> QED BY <1>1, <1>5, <1>6, <2>2, <2>5
<1>7. CASE batch # LastBatch
  <2>1. t = e
    BY <1>4, <1>7, FlooredSum
  <2>2. Total(FloorShare, Before(batch + 1)) = b + e
    <3>1. /\ Before(batch + 1) = Before(batch) \cup InBatch(batch)
          /\ Before(batch) \cap InBatch(batch) = {} /\ Before(batch) \in SUBSET Investors
      BY BeforeEnds
    <3>2. Floored = InBatch(batch)
      BY <1>7, FlooredSum
    <3> QED BY <1>1, <3>1, <3>2, FloorsOfParts
  <2>3. distributed = b \/ (rebuilt /\ (distributed >= b \/ distributed >= InvestorPool))
    BY SumIsTotal DEF Totals
  <2>4. SumOver(Before(batch + 1), FloorShare) = b + e
    BY <2>2, SumIsTotal
  <2> HIDE DEF e, b, t
  <2>5. Totals(rebuilt, distributed + t, Before(batch + 1))
    BY <1>1, <2>1, <2>3, <2>4 DEF Totals
  <2> QED BY <1>5, <1>7, <2>5
<1> QED BY <1>6, <1>7

LEMMA BuildMoney == ASSUME IInv, MoneyInv, BuildTx PROVE MoneyInv'
<1> DEFINE g == [i \in Investors |-> ShareStroops(i)]
           a == [i \in Investors |->
                   IF i \in InBatch(batch) /\ ShareStroops(i) > 0 THEN ShareStroops(i) ELSE 0]
<1>1. /\ at = "build" /\ at' = "submit" /\ tx'.amount = a
      /\ distributed' = distributed + SumOver(InBatch(batch), g)
      /\ UNCHANGED <<batch, inflight, recorded, runs, rebuilt, escrow, fee, paid>>
  BY DEF BuildTx, ledger
<1>2. /\ IsFiniteSet(Investors) /\ \A i \in Investors : FloorShare[i] \in Int
      /\ InvestorPool \in Int /\ distributed \in Int /\ batch \in Batches
  BY InvestorsType, FloorsType, PoolType DEF MoneyInv, AmountsOK, IInv, CountsOK
<1>3. \A i \in Investors : ShareStroops(i) \in Int
  <2>1. ASSUME NEW i \in Investors PROVE Distributed(i) \in Int
    <3> DEFINE E == {j \in InBatch(batch) : j < i}
    <3>1. E \in SUBSET Investors
      BY DEF InBatch
    <3>2. IsFiniteSet(E)
      BY <1>2, <3>1, FS_Subset
    <3>3. Total(FloorShare, E) \in Int
      BY <1>2, <3>1, <3>2, TotalInt
    <3> QED BY <1>2, <3>3, SumIsTotal DEF Distributed
  <2> QED BY <1>2, <2>1 DEF ShareStroops
<1>4. SumOver(InBatch(batch), g) \in Int
  <2>1. InBatch(batch) \in SUBSET Investors
    BY DEF InBatch
  <2>2. IsFiniteSet(InBatch(batch))
    BY <1>2, <2>1, FS_Subset
  <2>3. \A i \in InBatch(batch) : g[i] \in Int
    BY <1>3, <2>1
  <2>4. Total(g, InBatch(batch)) \in Int
    BY <2>2, <2>3, TotalInt
  <2> QED BY <2>4, SumIsTotal
<1>5. a \in Amounts
  BY <1>3 DEF Amounts
<1>6. AmountsOK'
  <2>1. distributed' \in Int
    BY <1>1, <1>2, <1>4
  <2>2. Amounts' = Amounts
    BY DEF Amounts, Investors
  <2> HIDE DEF a, g
  <2> QED BY <1>1, <1>5, <2>1, <2>2 DEF MoneyInv, AmountsOK
<1>7. Conserved'
  BY <1>1 DEF MoneyInv, Conserved, SumOver, Investors, MapThenSumSet, MapThenFoldSet
<1>8. NotStarted' /\ RecordedDone'
  <2>1. runs # 0 /\ ~recorded
    BY <1>1 DEF MoneyInv, NotStarted, RecordedDone
  <2> QED BY <1>1, <2>1 DEF NotStarted, RecordedDone
<1>9. ASSUME FirstRun' PROVE (inflight = {})' /\ Building' /\ Submitting' /\ Released'
  <2>1. FirstRun
    BY <1>1, <1>9 DEF FirstRun
  <2>2. /\ inflight = {} /\ fee = 0 /\ Settled(rebuilt, paid, Before(batch))
        /\ Totals(rebuilt, distributed, Before(batch))
    BY <1>1, <2>1 DEF MoneyInv, Progress, Building
  <2>3. Settled(rebuilt, a, InBatch(batch))
    <3>1. \A i \in InBatch(batch) : SettlesIf(rebuilt, i, AmountFor(i))
      BY <1>2, <2>2, BatchSettled
    <3>2. \A i \in Investors : a[i] = AmountFor(i)
      BY DEF AmountFor
    <3>3. \A i \in Investors : i \notin InBatch(batch) => AmountFor(i) = 0
      BY DEF AmountFor
    <3> HIDE DEF a
    <3> QED BY <3>1, <3>2, <3>3 DEF Settled
  <2>4. IF batch = LastBatch
          THEN distributed + SumOver(InBatch(batch), g) = InvestorPool
          ELSE Totals(rebuilt, distributed + SumOver(InBatch(batch), g), Before(batch + 1))
    <3>1. \A i \in Investors : g[i] = ShareStroops(i)
      OBVIOUS
    <3> HIDE DEF g
    <3> QED BY <1>2, <2>2, <3>1, RunningTotal
  <2> HIDE DEF a, g
  <2>5. Submitting'
    BY <1>1, <2>2, <2>3, <2>4, ProgressNext
  <2>6. Building' /\ Released'
    BY <1>1, ProgressNext
  <2> QED BY <1>1, <2>2, <2>5, <2>6
<1>10. Progress'
  BY <1>9 DEF Progress
<1> QED BY <1>6, <1>7, <1>8, <1>10 DEF MoneyInv

LEMMA SubmittedMoney == ASSUME IInv, MoneyInv, Submitted PROVE MoneyInv'
<1>1. /\ at = "submit" /\ Valid(tx) /\ Apply(tx)
      /\ UNCHANGED <<distributed, tx, inflight, recorded, runs, rebuilt>>
      /\ IF batch = LastBatch THEN at' = "commit" /\ batch' = batch
                              ELSE at' = "build" /\ batch' = batch + 1
  BY DEF Submitted
<1>2. AmountsOK /\ Conserved /\ tx.amount \in Amounts /\ tx.batch = batch /\ batch \in Batches
  BY <1>1 DEF MoneyInv, AmountsOK, IInv, SubmitOK, CountsOK
<1>3. /\ escrow' \in Nat /\ fee' \in Nat /\ paid' \in Amounts /\ Conserved'
      /\ fee' = fee + PlatformPart(tx)
      /\ \A i \in Investors : paid'[i] = paid[i] + tx.amount[i]
  BY <1>1, <1>2, ApplyConserves
<1>4. Amounts' = Amounts
  BY DEF Amounts, Investors
<1>5. AmountsOK'
  BY <1>1, <1>2, <1>3, <1>4 DEF AmountsOK
<1>6. NotStarted' /\ RecordedDone'
  <2>1. runs # 0 /\ ~recorded
    BY <1>1 DEF MoneyInv, NotStarted, RecordedDone
  <2> QED BY <1>1, <2>1 DEF NotStarted, RecordedDone
<1>7. ASSUME FirstRun' PROVE (inflight = {})' /\ Building' /\ Submitting' /\ Released'
  <2>1. FirstRun
    BY <1>1, <1>7 DEF FirstRun
  <2>2. /\ inflight = {} /\ fee = 0 /\ Settled(rebuilt, paid, Before(batch))
        /\ Settled(rebuilt, tx.amount, InBatch(batch))
        /\ IF batch = LastBatch THEN distributed = InvestorPool
                                ELSE Totals(rebuilt, distributed, Before(batch + 1))
    BY <1>1, <2>1 DEF MoneyInv, Progress, Submitting
  <2>3. Before(batch + 1) = Before(batch) \cup InBatch(batch) /\ Before(batch) \cap InBatch(batch) = {}
    BY <1>2, BeforeEnds
  <2>4. Settled(rebuilt, paid', Before(batch + 1))
    <3> SUFFICES ASSUME NEW i \in Investors
                 PROVE  IF i \in Before(batch + 1) THEN SettlesIf(rebuilt, i, paid'[i])
                                                  ELSE paid'[i] = 0
      BY DEF Settled
    <3>1. paid'[i] = paid[i] + tx.amount[i] /\ paid[i] \in Nat /\ tx.amount[i] \in Nat
      BY <1>2, <1>3 DEF AmountsOK, Amounts
    <3>2. /\ IF i \in Before(batch) THEN SettlesIf(rebuilt, i, paid[i]) ELSE paid[i] = 0
          /\ IF i \in InBatch(batch) THEN SettlesIf(rebuilt, i, tx.amount[i])
                                     ELSE tx.amount[i] = 0
      BY <2>2 DEF Settled
    <3>3. CASE i \in Before(batch)
      <4>1. i \notin InBatch(batch) /\ i \in Before(batch + 1)
        BY <2>3, <3>3
      <4>2. paid'[i] = paid[i]
        BY <3>1, <3>2, <4>1
      <4> QED BY <3>2, <3>3, <4>1, <4>2
    <3>4. CASE i \notin Before(batch)
      <4>1. paid'[i] = tx.amount[i]
        BY <3>1, <3>2, <3>4
      <4>2. i \in Before(batch + 1) <=> i \in InBatch(batch)
        BY <2>3, <3>4
      <4> QED BY <3>2, <4>1, <4>2
    <3> QED BY <3>3, <3>4
  <2>5. CASE batch = LastBatch
    <3>1. fee' = PlatformStroops
      BY <1>2, <1>3, <2>2, <2>5, PoolType DEF PlatformPart
    <3>2. Settled(rebuilt', paid', Investors)
      BY <1>1, <2>4, <2>5, BeforeEnds
    <3>3. Released'
      BY <3>1, <3>2, ProgressNext
    <3>4. Building' /\ Submitting'
      BY <1>1, <2>5, ProgressNext
    <3> QED BY <1>1, <2>2, <3>3, <3>4
  <2>6. CASE batch # LastBatch
    <3>1. fee' = 0
      BY <1>2, <1>3, <2>2, <2>6 DEF PlatformPart
    <3>2. batch' = batch + 1 /\ at' = "build"
      BY <1>1, <2>6
    <3>3. /\ Settled(rebuilt', paid', Before(batch'))
          /\ Totals(rebuilt', distributed', Before(batch'))
      BY <1>1, <2>2, <2>4, <2>6, <3>2
    <3>4. Building'
      BY <3>1, <3>2, <3>3, ProgressNext
    <3>5. Submitting' /\ Released'
      BY <3>2, ProgressNext
    <3> QED BY <1>1, <2>2, <3>4, <3>5
  <2> QED BY <2>5, <2>6
<1>8. Progress'
  BY <1>7 DEF Progress
<1> QED BY <1>3, <1>5, <1>6, <1>8 DEF MoneyInv

(* Steps that end the run.  *)
LEMMA DisturbedMoney ==
  ASSUME MoneyInv, AmountsOK', Conserved', at = "submit", at' = "idle", UNCHANGED <<runs, recorded>>
  PROVE  MoneyInv'
<1>1. runs # 0 /\ ~recorded
  BY DEF MoneyInv, NotStarted, RecordedDone
<1>2. NotStarted' /\ RecordedDone' /\ Progress'
  BY <1>1 DEF NotStarted, RecordedDone, Progress, FirstRun
<1> QED BY <1>2 DEF MoneyInv

(* The shares counted so far stay counted when the batch is built again.    *)
LEMMA CountedTwice ==
  ASSUME batch \in Batches, distributed \in Int,
         IF batch = LastBatch THEN distributed = InvestorPool
                              ELSE Totals(rebuilt, distributed, Before(batch + 1))
  PROVE  Totals(TRUE, distributed, Before(batch))
<1> DEFINE b == Total(FloorShare, Before(batch))
           c == Total(FloorShare, Before(batch + 1))
<1>1. CASE batch = LastBatch
  BY <1>1, PoolType DEF Totals
<1>2. CASE batch # LastBatch
  <2>1. /\ Before(batch + 1) \in SUBSET Investors
        /\ Before(batch) \in SUBSET Before(batch + 1)
    BY BeforeEnds
  <2>2. IsFiniteSet(Before(batch + 1)) /\ IsFiniteSet(Before(batch))
    BY <2>1, InvestorsType, FS_Subset
  <2>3. b <= c /\ b \in Nat /\ c \in Nat
    BY <2>1, <2>2, FloorsType, TotalSubset, TotalNat
  <2>4. distributed = c \/ distributed >= c \/ distributed >= InvestorPool
    BY <1>2, SumIsTotal DEF Totals
  <2>5. SumOver(Before(batch), FloorShare) = b
    BY SumIsTotal
  <2> HIDE DEF b, c
  <2> QED BY <2>3, <2>4, <2>5, PoolType DEF Totals
<1> QED BY <1>1, <1>2

LEMMA FeeMoney == ASSUME IInv, MoneyInv, FeeRejected PROVE MoneyInv'
<1>1. /\ at = "submit" /\ (at' = "idle" \/ (at' = "build" /\ rebuilt' = TRUE))
      /\ UNCHANGED <<batch, runs, recorded, escrow, fee, paid, distributed, tx, inflight>>
  BY DEF FeeRejected, ledger
<1>2. AmountsOK' /\ Conserved'
  BY <1>1, StillMoney DEF MoneyInv
<1>3. CASE at' = "idle"
  BY <1>1, <1>2, <1>3, DisturbedMoney
<1>4. CASE at' = "build" /\ rebuilt' = TRUE
  <2>1. runs # 0 /\ ~recorded
    BY <1>1 DEF MoneyInv, NotStarted, RecordedDone
  <2>2. NotStarted' /\ RecordedDone'
    BY <1>1, <2>1 DEF NotStarted, RecordedDone
  <2>3. ASSUME FirstRun' PROVE (inflight = {})' /\ Building' /\ Submitting' /\ Released'
    <3>1. FirstRun
      BY <1>1, <2>3 DEF FirstRun
    <3>2. /\ inflight = {} /\ fee = 0 /\ Settled(rebuilt, paid, Before(batch))
          /\ IF batch = LastBatch THEN distributed = InvestorPool
                                  ELSE Totals(rebuilt, distributed, Before(batch + 1))
      BY <1>1, <3>1 DEF MoneyInv, Progress, Submitting
    <3>3. batch \in Batches /\ distributed \in Int
      BY DEF IInv, CountsOK, MoneyInv, AmountsOK
    <3>4. Totals(TRUE, distributed, Before(batch))
      BY <3>2, <3>3, CountedTwice
    <3>5. Settled(TRUE, paid, Before(batch))
      <4>1. ASSUME NEW i, SettlesIf(rebuilt, i, paid[i]) PROVE SettlesIf(TRUE, i, paid[i])
        BY <4>1 DEF SettlesIf
      <4> QED BY <3>2, <4>1 DEF Settled
    <3>6. Building'
      BY <1>1, <1>4, <3>2, <3>4, <3>5, ProgressNext
    <3>7. Submitting' /\ Released'
      BY <1>4, ProgressNext
    <3> QED BY <1>1, <3>2, <3>6, <3>7
  <2> QED BY <1>2, <2>2, <2>3 DEF MoneyInv, Progress
<1> QED BY <1>1, <1>3, <1>4

LEMMA ThrowsMoney == ASSUME MoneyInv, SubmitThrows PROVE MoneyInv'
<1>1. at = "submit" /\ at' = "idle" /\ UNCHANGED <<runs, recorded, distributed, tx>>
  BY DEF SubmitThrows
<1>2. AmountsOK /\ Conserved /\ tx.amount \in Amounts
  BY DEF MoneyInv, AmountsOK
<1>3. Amounts' = Amounts
  BY DEF Amounts, Investors
<1>4. CASE inflight' \in {inflight, inflight \cup {tx}} /\ UNCHANGED ledger
  <2>1. UNCHANGED <<escrow, fee, paid>>
    BY <1>4 DEF ledger
  <2>2. AmountsOK'
    BY <1>1, <1>2, <1>3, <1>4, <2>1 DEF AmountsOK
  <2>3. Conserved'
    BY <1>2, <2>1 DEF Conserved, SumOver, Investors, MapThenSumSet, MapThenFoldSet
  <2> QED BY <1>1, <2>2, <2>3, DisturbedMoney
<1>5. CASE Valid(tx) /\ Apply(tx) /\ UNCHANGED inflight
  <2>1. escrow' \in Nat /\ fee' \in Nat /\ paid' \in Amounts /\ Conserved'
    BY <1>2, <1>5, ApplyConserves
  <2>2. AmountsOK'
    BY <1>1, <1>2, <1>3, <1>5, <2>1 DEF AmountsOK
  <2> QED BY <1>1, <2>1, <2>2, DisturbedMoney
<1> QED BY <1>4, <1>5 DEF SubmitThrows

LEMMA CommitMoney == ASSUME MoneyInv, CommitRows PROVE MoneyInv'
<1>1. /\ at = "commit" /\ at' \in {"idle", "done"} /\ (recorded' => at' = "done")
      /\ UNCHANGED <<batch, runs, rebuilt, escrow, fee, paid, distributed, tx, inflight>>
  BY DEF CommitRows, ledger
<1>2. AmountsOK' /\ Conserved'
  BY <1>1, StillMoney DEF MoneyInv
<1>3. NotStarted' /\ RecordedDone'
  <2>1. runs # 0
    BY <1>1 DEF MoneyInv, NotStarted
  <2> QED BY <1>1, <2>1 DEF NotStarted, RecordedDone
<1>4. ASSUME FirstRun' PROVE (inflight = {})' /\ Building' /\ Submitting' /\ Released'
  <2>1. FirstRun
    BY <1>1, <1>4 DEF FirstRun
  <2>2. inflight = {} /\ fee = PlatformStroops /\ Settled(rebuilt, paid, Investors)
    BY <1>1, <2>1 DEF MoneyInv, Progress, Released
  <2>3. Released'
    BY <1>1, <2>2, ProgressNext
  <2>4. Building' /\ Submitting'
    BY <1>1, ProgressNext
  <2> QED BY <1>1, <2>2, <2>3, <2>4
<1>5. Progress'
  BY <1>4 DEF Progress
<1> QED BY <1>2, <1>3, <1>5 DEF MoneyInv

LEMMA LateMoney == ASSUME MoneyInv, NEW t \in inflight, ApplyLate(t) PROVE MoneyInv'
<1>1. /\ inflight' = inflight \ {t}
      /\ UNCHANGED <<at, batch, distributed, tx, recorded, runs, rebuilt>>
  BY DEF ApplyLate
<1>2. AmountsOK /\ Conserved /\ t.amount \in Amounts
  BY DEF MoneyInv, AmountsOK
<1>3. Amounts' = Amounts
  BY DEF Amounts, Investors
<1>4. escrow' \in Nat /\ fee' \in Nat /\ paid' \in Amounts /\ Conserved'
  <2>1. CASE Valid(t) /\ Apply(t)
    BY <1>2, <2>1, ApplyConserves
  <2>2. CASE UNCHANGED ledger
    <3>1. UNCHANGED <<escrow, fee, paid>>
      BY <2>2 DEF ledger
    <3>2. Conserved'
      BY <1>2, <3>1 DEF Conserved, SumOver, Investors, MapThenSumSet, MapThenFoldSet
    <3> QED BY <1>2, <3>1, <3>2 DEF AmountsOK
  <2> QED BY <2>1, <2>2 DEF ApplyLate
<1>5. AmountsOK'
  BY <1>1, <1>2, <1>3, <1>4 DEF AmountsOK
<1>6. runs # 0 /\ ~FirstRun
  BY DEF MoneyInv, NotStarted, Progress
<1>7. NotStarted' /\ RecordedDone' /\ Progress'
  BY <1>1, <1>6 DEF MoneyInv, NotStarted, RecordedDone, Progress, FirstRun
<1> QED BY <1>4, <1>5, <1>7 DEF MoneyInv

(* Trustlines change no amounts. *)
LEMMA IdleMoney ==
  ASSUME MoneyInv, UNCHANGED <<at, batch, distributed, tx, inflight, recorded, runs, rebuilt,
                               escrow, fee, paid>>
  PROVE  MoneyInv'
<1>1. AmountsOK' /\ Conserved'
  BY StillMoney DEF MoneyInv
<1>2. RecordedDone'
  BY DEF MoneyInv, RecordedDone
<1>3. NotStarted'
  BY ProgressNext DEF MoneyInv, NotStarted, NothingPaid
<1>4. FirstRun' => FirstRun
  BY DEF FirstRun
<1>5. /\ Building => Building'
      /\ Submitting => Submitting'
      /\ Released => Released'
  BY ProgressNext DEF Building, Submitting, Released
<1>6. Progress'
  BY <1>4, <1>5 DEF MoneyInv, Progress
<1> QED BY <1>1, <1>2, <1>3, <1>6 DEF MoneyInv

LEMMA NextMoney == IInv /\ MoneyInv /\ [Next]_vars => MoneyInv'
<1> SUFFICES ASSUME IInv, MoneyInv, [Next]_vars PROVE MoneyInv'
  OBVIOUS
<1>1. CASE StartRelease
  BY <1>1, StartMoney
<1>2. CASE BuildTx
  BY <1>2, BuildMoney
<1>3. CASE Submitted
  BY <1>3, SubmittedMoney
<1>4. CASE FeeRejected
  BY <1>4, FeeMoney
<1>5. CASE SubmitThrows
  BY <1>5, ThrowsMoney
<1>6. CASE CommitRows
  BY <1>6, CommitMoney
<1>7. CASE \E t \in inflight : ApplyLate(t)
  BY <1>7, LateMoney
<1>8. CASE \E i \in Investors : ChangeTrust(i)
  <2>1. UNCHANGED <<at, batch, distributed, tx, inflight, recorded, runs, rebuilt,
                    escrow, fee, paid>>
    BY <1>8 DEF ChangeTrust
  <2> QED BY <2>1, IdleMoney
<1>9. CASE UNCHANGED vars
  <2>1. UNCHANGED <<at, batch, distributed, tx, inflight, recorded, runs, rebuilt,
                    escrow, fee, paid>>
    BY <1>9 DEF vars, ledger
  <2> QED BY <2>1, IdleMoney
<1> QED BY <1>1, <1>2, <1>3, <1>4, <1>5, <1>6, <1>7, <1>8, <1>9 DEF Next

(* What leaves the escrow account has been received by the investors and    *)
(* the platform, in every run of releaseEscrow, late transactions included. *)
THEOREM ConservedHolds == Spec => []Conserved
<1>1. MoneyInv => Conserved
  BY DEF MoneyInv
<1> QED BY InitIInv, NextIInv, InitMoney, NextMoney, <1>1, PTL DEF Spec

(* A release of releaseEscrow that took one run pays the platform its part  *)
(* and every investor the share: for every list of investments, value of    *)
(* the deal, batch size and rounding of the doubles, refused fees, timeouts *)
(* and changing trustlines included.  Only the last investor can be paid    *)
(* less, after a second build, and the escrow keeps exactly what is missing. *)
THEOREM SharesOfOneRunHolds == Spec => []SharesOfOneRun
<1>1. MoneyInv => SharesOfOneRun
  <2> SUFFICES ASSUME MoneyInv, recorded, runs = 1
               PROVE  /\ \A i \in Investors : Settles(i, paid[i])
                      /\ fee = PlatformStroops
                      /\ escrow = Share(LastInvestor) - paid[LastInvestor]
    BY DEF SharesOfOneRun
  <2> DEFINE n == LastInvestor
             o == Total(FloorShare, Others)
  <2>1. at = "done"
    BY DEF MoneyInv, RecordedDone
  <2>2. fee = PlatformStroops /\ \A i \in Investors : SettlesIf(rebuilt, i, paid[i])
    BY <2>1 DEF MoneyInv, Progress, FirstRun, Released, Settled
  <2>3. \A i \in Others : paid[i] \in Int /\ paid[i] = FloorShare[i]
    <3>1. ASSUME NEW i \in Others PROVE paid[i] = Share(i)
      BY <2>2 DEF SettlesIf, Others
    <3> QED BY <3>1, SharesType, FloorsType DEF Others
  <2>4. Total(paid, Others) = o /\ o \in Nat
    BY <2>3, SharesType, FloorsType, TotalSame, TotalNat DEF Others
  <2>5. Total(paid, Investors) = paid[n] + o
    <3>1. \A i \in Investors : paid[i] \in Int
      BY DEF MoneyInv, AmountsOK, Amounts
    <3>2. Total(paid, Investors) = paid[n] + Total(paid, Investors \ {n})
      BY <3>1, InvestorsType, SharesType, TotalRemove
    <3> QED BY <2>4, <3>2 DEF Others
  <2>6. escrow = TotalValue - fee - (paid[n] + o)
    BY <2>5, SumIsTotal DEF MoneyInv, Conserved
  <2>7. escrow \in Nat /\ paid[n] \in Nat
    BY SharesType DEF MoneyInv, AmountsOK, Amounts
  <2>8. Share(n) = IF InvestorPool - o > 0 THEN InvestorPool - o ELSE 0
    BY SharesType DEF Rest
  <2> HIDE DEF o, n
  <2>9. escrow = (InvestorPool - o) - paid[n] /\ InvestorPool \in Nat
    BY <2>2, <2>4, <2>6, <2>7, PoolType
  <2>10. escrow = Share(n) - paid[n]
    BY <2>4, <2>7, <2>8, <2>9
  <2> QED BY <2>2, <2>10 DEF Settles, SettlesIf, n
<1> QED BY InitIInv, NextIInv, InitMoney, NextMoney, <1>1, PTL DEF Spec

-----------------------------------------------------------------------------
(* The types that neither argument needs. *)
OthersOK ==
    /\ attempt \in 0..(MaxAttempts - 1) /\ trustChanges \in Nat
    /\ trusted \subseteq Investors /\ trust \subseteq Investors
    /\ recorded \in BOOLEAN /\ rebuilt \in BOOLEAN

LEMMA NextOthers == OthersOK /\ [Next]_vars => OthersOK'
<1> SUFFICES ASSUME OthersOK, [Next]_vars PROVE OthersOK'
  OBVIOUS
<1>1. Investors' = Investors
  BY DEF Investors
<1>2. MaxAttempts \in Nat \ {0}
  BY ReleaseAssumption
<1>3. attempt' \in 0..(MaxAttempts - 1)
  <2>1. attempt' = attempt \/ attempt' = 0 \/ (attempt' = attempt + 1 /\ attempt + 1 < MaxAttempts)
    BY DEF Next, vars, ledger, StartRelease, BuildTx, Submitted, FeeRejected, SubmitThrows,
           CommitRows, ApplyLate, ChangeTrust
  <2> QED BY <1>2, <2>1 DEF OthersOK
<1>4. recorded' \in BOOLEAN /\ rebuilt' \in BOOLEAN
  <2>1. /\ recorded' = recorded \/ recorded' \in BOOLEAN
        /\ rebuilt' = rebuilt \/ rebuilt' = TRUE
    BY DEF Next, vars, ledger, StartRelease, BuildTx, Submitted, FeeRejected, SubmitThrows,
           CommitRows, ApplyLate, ChangeTrust
  <2> QED BY <2>1, Zenon DEF OthersOK
<1>5. trust' \subseteq Investors /\ trustChanges' \in Nat
  <2>1. \/ UNCHANGED <<trust, trustChanges>>
        \/ \E i \in Investors : ChangeTrust(i)
    BY DEF Next, vars, ledger, StartRelease, BuildTx, Submitted, FeeRejected, SubmitThrows,
           CommitRows, ApplyLate, Apply
  <2> QED BY <2>1 DEF OthersOK, ChangeTrust
<1>6. trusted' \subseteq Investors
  <2>1. trusted' = trusted \/ trusted' = trust
    BY DEF Next, vars, ledger, StartRelease, BuildTx, Submitted, FeeRejected, SubmitThrows,
           CommitRows, ApplyLate, ChangeTrust
  <2> QED BY <2>1 DEF OthersOK
<1> QED BY <1>1, <1>3, <1>4, <1>5, <1>6 DEF OthersOK

(* releaseEscrow and the ledger stay within their types: the escrow account *)
(* is never overdrawn, the fee attempts stay below their limit, and the     *)
(* batch is always one of the list.                                         *)
THEOREM TypeCorrect == Spec => []TypeOK
<1>1. Init => OthersOK
  <2>1. Init => /\ attempt \in 0..(MaxAttempts - 1) /\ trustChanges \in Nat
                /\ trusted \subseteq Investors /\ trust \subseteq Investors
    BY ReleaseAssumption DEF Init
  <2>2. Init => recorded \in BOOLEAN /\ rebuilt \in BOOLEAN
    BY DEF Init
  <2> QED BY <2>1, <2>2 DEF OthersOK
<1>2. IInv /\ MoneyInv /\ OthersOK => TypeOK
  <2> SUFFICES ASSUME IInv, MoneyInv, OthersOK PROVE TypeOK
    OBVIOUS
  <2>1. /\ CountsOK /\ AmountsOK
    BY DEF IInv, MoneyInv
  <2>2. recorded \in BOOLEAN /\ rebuilt \in BOOLEAN
    BY DEF OthersOK
  <2> QED BY <2>1, <2>2 DEF TypeOK, CountsOK, AmountsOK, Amounts, OthersOK
<1> QED BY InitIInv, NextIInv, InitMoney, NextMoney, NextOthers, <1>1, <1>2, PTL DEF Spec
-----------------------------------------------------------------------------
(* The refinement of BatchedPayout.  The order and the number of payments   *)
(* are IInv after the step, what is held is MoneyInv after the step; two    *)
(* things are new.  After the last payment of a call every transaction in   *)
(* flight has a sequence number that is spent, so that none can follow the  *)
(* recording of the payout, and a transaction pays only its own batch.      *)

Spent ==
    at \in {"commit", "done"} =>
        batchPaid[LastBatch] > 0 /\ \A t \in inflight : t.seq <= seq

OwnBatch(t) == \A i \in Investors : t.amount[i] > 0 => BatchOf(i) = t.batch
OwnBatches == OwnBatch(tx) /\ \A t \in inflight : OwnBatch(t)

PayoutInv == Spent /\ OwnBatches

LEMMA InitPayoutInv == Init => PayoutInv
BY DEF Init, PayoutInv, Spent, OwnBatches, OwnBatch, NoTx

LEMMA NextOwnBatches == OwnBatches /\ [Next]_vars => OwnBatches'
<1> SUFFICES ASSUME OwnBatches, [Next]_vars PROVE OwnBatches'
  OBVIOUS
<1>1. ASSUME NEW t PROVE OwnBatch(t)' <=> OwnBatch(t')
  BY DEF OwnBatch, Investors, BatchOf
<1>2. CASE BuildTx
  <2>1. /\ tx'.batch = batch /\ inflight' = inflight
        /\ \A i \in Investors : tx'.amount[i] > 0 => i \in InBatch(batch)
    BY <1>2 DEF BuildTx
  <2>2. OwnBatch(tx)'
    BY <2>1 DEF OwnBatch, InBatch, Investors, BatchOf
  <2>3. \A t \in inflight' : OwnBatch(t)'
    BY <2>1 DEF OwnBatches, OwnBatch, Investors, BatchOf
  <2> QED BY <2>2, <2>3 DEF OwnBatches
<1>3. CASE ~BuildTx
  <2>1. tx' = tx /\ inflight' \subseteq inflight \cup {tx}
    BY <1>3 DEF Next, vars, StartRelease, Submitted, FeeRejected, SubmitThrows, CommitRows,
                ApplyLate, ChangeTrust
  <2> QED BY <2>1 DEF OwnBatches, OwnBatch, Investors, BatchOf
<1> QED BY <1>2, <1>3

\* The last batch of a call is paid: everything in flight is behind it.
LEMMA SubmittedSpends == ASSUME IInv, Submitted PROVE Spent'
<1>1. CASE batch = LastBatch
  <2>1. /\ at = "submit" /\ Valid(tx) /\ inflight' = inflight
        /\ seq' = seq + 1 /\ batchPaid' = [batchPaid EXCEPT ![tx.batch] = @ + 1]
    BY DEF Submitted, Apply
  <2>2. tx.batch = LastBatch /\ LastBatch \in Batches
    BY <1>1, <2>1, SubmitReady
  <2>3. batchPaid \in [Batches -> Nat]
    BY DEF IInv, CountsOK
  <2>4. batchPaid'[LastBatch] > 0
    BY <2>1, <2>2, <2>3
  <2>5. \A t \in inflight' : t.seq <= seq'
    BY <2>1 DEF IInv, InFlightOK, Follows
  <2> QED BY <2>4, <2>5 DEF Spent, LastBatch, BatchCount
<1>2. CASE batch # LastBatch
  BY <1>2 DEF Submitted, Spent
<1> QED BY <1>1, <1>2

\* With its sequence number spent a transaction changes nothing.
LEMMA LateIsDropped ==
  ASSUME IInv, Spent, at \in {"commit", "done"}, NEW t \in inflight, ApplyLate(t)
  PROVE  UNCHANGED ledger /\ inflight' \subseteq inflight
<1>1. t.seq \in Nat /\ seq \in Nat /\ t.seq <= seq
  BY DEF Spent, IInv, InFlightOK, Follows, CountsOK
<1>2. ~Valid(t)
  BY <1>1 DEF Valid
<1> QED BY <1>2 DEF ApplyLate

LEMMA NextSpent == IInv /\ Spent /\ [Next]_vars => Spent'
<1> SUFFICES ASSUME IInv, Spent, [Next]_vars PROVE Spent'
  OBVIOUS
<1>1. ASSUME at \in {"commit", "done"} \/ at' \notin {"commit", "done"},
             inflight' \subseteq inflight, UNCHANGED <<seq, batchPaid>>
      PROVE  Spent'
  BY <1>1 DEF Spent, LastBatch, BatchCount
<1>2. CASE StartRelease \/ BuildTx \/ FeeRejected \/ SubmitThrows
  BY <1>2 DEF Spent, StartRelease, BuildTx, FeeRejected, SubmitThrows
<1>3. CASE Submitted
  BY <1>3, SubmittedSpends
<1>4. CASE CommitRows
  BY <1>1, <1>4 DEF CommitRows, ledger
<1>5. ASSUME NEW t \in inflight, ApplyLate(t) PROVE Spent'
  <2>1. CASE at \in {"commit", "done"}
    BY <1>1, <1>5, <2>1, LateIsDropped DEF ledger
  <2>2. CASE at \notin {"commit", "done"}
    BY <1>5, <2>2 DEF Spent, ApplyLate
  <2> QED BY <2>1, <2>2
<1>6. CASE \E i \in Investors : ChangeTrust(i)
  <2>1. UNCHANGED <<at, inflight, seq, batchPaid>>
    BY <1>6 DEF ChangeTrust
  <2> QED BY <2>1 DEF Spent, LastBatch, BatchCount
<1>7. CASE UNCHANGED vars
  <2>1. UNCHANGED <<at, inflight, seq, batchPaid>>
    BY <1>7 DEF vars, ledger
  <2> QED BY <2>1 DEF Spent, LastBatch, BatchCount
<1> QED BY <1>2, <1>3, <1>4, <1>5, <1>6, <1>7 DEF Next

LEMMA NextPayoutInv == IInv /\ PayoutInv /\ [Next]_vars => PayoutInv'
BY NextOwnBatches, NextSpent DEF PayoutInv

LEMMA PayoutSum == ASSUME NEW f PROVE Payout!Sum(f) = Total(f, Investors)
BY DEF Payout!Sum, Payout!MapThenSumSet, Payout!MapThenFoldSet, Total, MapThenSumSet, MapThenFoldSet

\* A transaction that is applied is the payment of its batch.
LEMMA ApplyPays ==
  ASSUME IInv, IInv', MoneyInv, MoneyInv', ~recorded, UNCHANGED <<runs, recorded>>,
         NEW t, t.batch \in Batches, t.amount \in Amounts, OwnBatch(t), Valid(t), Apply(t)
  PROVE  Payout!PayoutNext
<1> DEFINE b == t.batch
           c == Total(paid', Investors)
<1>1. AmountsOK /\ Conserved
  BY DEF MoneyInv
<1>2. /\ escrow' \in Nat /\ fee' = fee + PlatformPart(t) /\ paid' \in Amounts
      /\ \A i \in Investors : paid'[i] = paid[i] + t.amount[i]
  BY <1>1, ApplyConserves
<1>3. b \in 0..LastBatch /\ b \in Int
  BY BatchesExist DEF Batches, LastBatch
<1>4. batchPaid' = [batchPaid EXCEPT ![b] = @ + 1] /\ batchPaid \in [Batches -> Nat]
  BY DEF Apply, IInv, CountsOK
<1>5. batchPaid[b] < IF b = 0 THEN runs ELSE batchPaid[b - 1]
  <2>1. batchPaid'[b] = batchPaid[b] + 1 /\ batchPaid[b] \in Nat /\ runs \in Nat
    BY <1>4 DEF IInv, CountsOK
  <2>2. OncePerRun' /\ BatchesInOrder'
    BY DEF IInv
  <2>3. \A k \in Batches : batchPaid'[k] <= runs /\ (k > 0 => batchPaid'[k] <= batchPaid'[k - 1])
    BY <2>2 DEF OncePerRun, BatchesInOrder, Batches, BatchCount
  <2>4. CASE b = 0
    BY <2>1, <2>3, <2>4
  <2>5. CASE b # 0
    <3>1. b > 0 /\ b - 1 \in Batches /\ b - 1 # b
      BY <1>3, <2>5, BatchesExist DEF Batches, LastBatch
    <3>2. batchPaid'[b - 1] = batchPaid[b - 1] /\ batchPaid[b - 1] \in Nat
      BY <1>4, <3>1
    <3> QED BY <2>1, <2>3, <2>5, <3>1, <3>2
  <2> QED BY <2>4, <2>5
<1>6. ASSUME NEW i \in Investors
      PROVE  IF i \in [k \in Batches |-> InBatch(k)][b]
               THEN paid'[i] >= paid[i] ELSE paid'[i] = paid[i]
  <2>1. paid[i] \in Nat /\ t.amount[i] \in Nat /\ paid'[i] = paid[i] + t.amount[i]
    BY <1>1, <1>2 DEF AmountsOK, Amounts
  <2>2. i \notin InBatch(b) => t.amount[i] = 0
    BY <2>1 DEF OwnBatch, InBatch
  <2>3. [k \in Batches |-> InBatch(k)][b] = InBatch(b)
    OBVIOUS
  <2> QED BY <2>1, <2>2, <2>3
<1>7. fee' = fee + IF b = LastBatch THEN PlatformStroops ELSE 0
  BY <1>2 DEF PlatformPart
<1>8. escrow' = TotalValue - fee' - Payout!Sum(paid')
  <2>1. Conserved'
    BY DEF MoneyInv
  <2>2. SumOver(Investors, paid)' = c
    BY DEF Total, SumOver, Investors, MapThenSumSet, MapThenFoldSet
  <2>3. escrow' = TotalValue - fee' - c
    BY <2>1, <2>2 DEF Conserved
  <2> QED BY <2>3, PayoutSum
<1>9. escrow' >= 0 /\ paid' \in [Investors -> Nat]
  BY <1>2 DEF Amounts
<1>10. Payout!Pay(b)
  BY <1>4, <1>5, <1>6, <1>7, <1>8, <1>9 DEF Payout!Pay
<1> QED BY <1>3, <1>10 DEF Payout!PayoutNext

LEMMA QuietPayout ==
  ASSUME UNCHANGED <<runs, batchPaid, escrow, paid, fee, recorded>>
  PROVE  UNCHANGED Payout!payoutVars
BY DEF Payout!payoutVars

\* The state in which a transaction may be applied, by the call that built it
\* or late, is one in which the payout is not recorded.
LEMMA PayoutStep ==
  ASSUME recorded \in BOOLEAN, IInv, IInv', MoneyInv, MoneyInv', PayoutInv, [Next]_vars
  PROVE  [Payout!PayoutNext]_Payout!payoutVars
<1>1. recorded => at = "done"
  BY DEF MoneyInv, RecordedDone
<1>2. CASE StartRelease
  <2>1. Payout!Call
    BY <1>2 DEF StartRelease, ledger, Payout!Call
  <2> QED BY <2>1 DEF Payout!PayoutNext
<1>3. CASE BuildTx \/ FeeRejected \/ \E i \in Investors : ChangeTrust(i)
  BY <1>3, QuietPayout DEF BuildTx, FeeRejected, ChangeTrust, ledger
<1>4. ASSUME at = "submit", Valid(tx), Apply(tx), UNCHANGED <<runs, recorded>>
      PROVE  Payout!PayoutNext
  <2>1. tx.batch \in Batches
    BY <1>4, SubmitReady
  <2>2. tx.amount \in Amounts /\ OwnBatch(tx)
    BY DEF MoneyInv, AmountsOK, PayoutInv, OwnBatches
  <2>3. ~recorded
    BY <1>1, <1>4
  <2> QED BY <1>4, <2>1, <2>2, <2>3, ApplyPays
<1>5. CASE Submitted
  BY <1>4, <1>5 DEF Submitted
<1>6. CASE SubmitThrows
  <2>1. at = "submit" /\ UNCHANGED <<runs, recorded>>
    BY <1>6 DEF SubmitThrows
  <2>2. CASE UNCHANGED ledger
    BY <2>1, <2>2, QuietPayout DEF ledger
  <2>3. CASE Valid(tx) /\ Apply(tx)
    BY <1>4, <2>1, <2>3
  <2> QED BY <1>6, <2>2, <2>3 DEF SubmitThrows
<1>7. CASE CommitRows
  <2>1. at = "commit" /\ UNCHANGED <<runs, batchPaid, escrow, paid, fee>> /\ recorded' \in BOOLEAN
    BY <1>7 DEF CommitRows, ledger
  <2>2. ~recorded
    BY <1>1, <2>1
  <2>3. batchPaid[LastBatch] > 0
    BY <2>1 DEF PayoutInv, Spent
  <2>4. CASE recorded' = TRUE
    BY <2>1, <2>2, <2>3, <2>4 DEF Payout!PayoutNext, Payout!Record
  <2>5. CASE recorded' = FALSE
    <3>1. recorded = FALSE
      BY <2>2
    <3> QED BY <2>1, <2>5, <3>1, QuietPayout
  <2> QED BY <2>1, <2>4, <2>5
<1>8. ASSUME NEW t \in inflight, ApplyLate(t) PROVE [Payout!PayoutNext]_Payout!payoutVars
  <2>1. UNCHANGED <<runs, recorded>>
    BY <1>8 DEF ApplyLate
  <2>2. CASE UNCHANGED ledger
    BY <2>1, <2>2, QuietPayout DEF ledger
  <2>3. CASE Valid(t) /\ Apply(t)
    <3>1. t.batch \in Batches
      BY DEF IInv, InFlightOK, Follows
    <3>2. t.amount \in Amounts /\ OwnBatch(t)
      BY DEF MoneyInv, AmountsOK, PayoutInv, OwnBatches
    <3>3. at # "done"
      <4>1. t.seq \in Nat /\ seq \in Nat /\ t.seq = seq + 1
        BY <2>3 DEF IInv, InFlightOK, Follows, CountsOK, Valid
      <4> QED BY <4>1 DEF PayoutInv, Spent
    <3>4. ~recorded
      BY <1>1, <3>3
    <3> QED BY <2>1, <2>3, <3>1, <3>2, <3>4, ApplyPays
  <2> QED BY <1>8, <2>2, <2>3 DEF ApplyLate
<1>9. CASE UNCHANGED vars
  BY <1>9, QuietPayout DEF vars, ledger
<1> QED BY <1>2, <1>3, <1>5, <1>6, <1>7, <1>8, <1>9 DEF Next

(* releaseEscrow implements BatchedPayout, for every list of investors,      *)
(* batch size and number of calls: whatever times out, is built again or is  *)
(* applied late, a call pays each batch at most once and in order, a batch   *)
(* pays only its own investors, and nothing is paid after the rows of the    *)
(* payout are recorded.                                                      *)
THEOREM ImplementsPayoutHolds == Spec => ImplementsPayout
<1>1. Init => Payout!PayoutInit
  BY DEF Init, Payout!PayoutInit, Batches, LastBatch
<1>2. TypeOK /\ IInv /\ IInv' /\ MoneyInv /\ MoneyInv' /\ PayoutInv /\ [Next]_vars
        => [Payout!PayoutNext]_Payout!payoutVars
  <2>1. TypeOK => recorded \in BOOLEAN
    BY DEF TypeOK
  <2> QED BY <2>1, PayoutStep
<1> QED BY TypeCorrect, InitIInv, NextIInv, InitMoney, NextMoney, InitPayoutInv, NextPayoutInv, <1>1, <1>2, PTL
        DEF Spec, ImplementsPayout, Payout!PayoutSpec
=============================================================================
