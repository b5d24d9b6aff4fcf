-------------------------- MODULE DisputeListener --------------------------
(***************************************************************************)
(* SorobanListenerService: every replica of the backend polls the events   *)
(* of the campaign contracts and projects the disputes into the table      *)
(* contract_disputes.  The row of one milestone is modelled, with the      *)
(* dispute events that FarmCampaign's contract emits for it.               *)
(*                                                                         *)
(* A poll reads its start from the cursor of its process, fetches at most  *)
(* Limit events, and reads and saves the whole row once per event.  The    *)
(* cursor moves only at the end of a poll in which nothing threw, and is   *)
(* lost with its process.                                                  *)
(***************************************************************************)
EXTENDS Integers, Sequences, SequencesExt, FiniteSets, FiniteSetsExt

CONSTANTS
    PoolMembers,  \* the arbitrators whose votes the contract counts
    Quorum,
    Polls, Processes,
    Owners,       \* the ways in which the polls belong to processes
    Limit,        \* of getEvents: 100 in the code
    Lookback,     \* ledgers read again by a new process: 10 in the code
    MaxLedger,    \* bound on the chain
    MaxFaults     \* bound on failing calls and restarts

ASSUME ListenerAssumption ==
    /\ {Quorum, Limit} \subseteq Nat \ {0}
    /\ Polls # {} /\ Owners \subseteq [Polls -> Processes]
    /\ {Lookback, MaxLedger, MaxFaults} \subseteq Nat

VARIABLES
    head,        \* chain: last ledger
    events,      \* chain: events of the milestone's dispute, in order
    windowOver,  \* chain: the voting deadline has passed
    linked,      \* sorobanCampaignContractId is set on the deal
    row,         \* contract_disputes row of the milestone
    cursor,      \* lastProcessedLedger of each process
    owner,       \* process of each poll
    poll,        \* local state of each poll
    faults,
    damaged      \* history: events were lost, see Converges

chain == <<head, events, windowOver>>
listenerVars == <<chain, linked, row, cursor, owner, poll, faults, damaged>>

NoRow == [phase |-> "none", outcome |-> "none", votes |-> {}, releaseVotes |-> 0,
          refundVotes |-> 0]
Opened == [NoRow EXCEPT !.phase = "open"]
Idle == [at |-> "idle", start |-> 0, batch |-> <<>>, latest |-> 0, entity |-> NoRow]

ListenerInit ==
    /\ head = 1 /\ events = <<>> /\ windowOver = FALSE
    /\ linked = FALSE /\ row = NoRow
    /\ cursor = [q \in Processes |-> 0]
    /\ owner \in Owners
    /\ poll = [p \in Polls |-> Idle]
    /\ faults = 0 /\ damaged = FALSE

-----------------------------------------------------------------------------
(* The chain: one invocation of the contract per ledger. *)

Happened(kind) == \E e \in Range(events) : e.kind = kind
Votes == {[voter |-> e.voter, release |-> e.release] :
             e \in {f \in Range(events) : f.kind = "vote"}}
For(votes, release) == Cardinality({v \in votes : v.release = release})

Event(kind, voter, release) ==
    [ledger |-> head + 1, kind |-> kind, voter |-> voter, release |-> release]
Emit(new) ==
    /\ head < MaxLedger
    /\ head' = head + 1
    /\ events' = events \o new
    /\ UNCHANGED <<windowOver, linked, row, cursor, owner, poll, faults, damaged>>

DisputeRaised == ~Happened("raised") /\ Emit(<<Event("raised", "party", FALSE)>>)

VoteCast(a, release) ==
    /\ Happened("raised") /\ ~Happened("verdict") /\ ~windowOver
    /\ \A v \in Votes : v.voter # a
    /\ LET decided == For(Votes, release) + 1 >= Quorum
       IN  Emit(<<Event("vote", a, release)>>
                \o IF decided THEN <<Event("verdict", "party", release)>> ELSE <<>>)

Majority == For(Votes, TRUE) > For(Votes, FALSE)
DisputeFinalized ==
    /\ Happened("raised") /\ windowOver /\ ~Happened("verdict")
    /\ Emit(<<Event("verdict", "party", Majority)>>)

\* The contract gives one verdict.
Verdict == (CHOOSE e \in Range(events) : e.kind = "verdict").release
DisputeResolved ==
    /\ Happened("raised") /\ ~Happened("resolved")
    /\ \/ /\ Happened("verdict")
          /\ Emit(<<Event("resolved", "party", Verdict)>>)
       \/ /\ ~Happened("verdict") /\ windowOver
          /\ Emit(<<Event("verdict", "party", Majority), Event("resolved", "party", Majority)>>)

\* A ledger closes without events of this dispute, perhaps after the deadline.
EmptyLedger ==
    /\ head < MaxLedger /\ head' = head + 1
    /\ windowOver' \in {windowOver, Happened("raised")}
    /\ UNCHANGED <<events, linked, row, cursor, owner, poll, faults, damaged>>

\* The deal gets its sorobanCampaignContractId.
LinkCampaign ==
    /\ ~linked /\ linked' = TRUE
    /\ UNCHANGED <<chain, row, cursor, owner, poll, faults, damaged>>

-----------------------------------------------------------------------------
(* pollContractEvents *)

Local(p, changes) == poll' = [poll EXCEPT ![p] = changes]
\* Events of the ledgers that the cursor of a process skips without reading them.
Between(low, high) ==
    \E i \in DOMAIN events : events[i].ledger > low /\ events[i].ledger <= high

StartPoll(p) ==
    /\ poll[p].at = "idle"
    /\ head > cursor[owner[p]]
    /\ IF linked
       THEN /\ Local(p, [Idle EXCEPT !.at = "fetch", !.start = cursor[owner[p]] + 1])
            /\ damaged' = (damaged \/ \E r \in Polls : poll[r].at # "idle")
            /\ UNCHANGED cursor
       ELSE /\ cursor' = [cursor EXCEPT ![owner[p]] = head]
            /\ damaged' = (damaged \/ Between(cursor[owner[p]], head))
            /\ UNCHANGED poll
    /\ UNCHANGED <<chain, linked, row, owner, faults>>

\* The events from the start on, which are in the order of their ledgers, but not
\* more than Limit of them.
GetEvents(p) ==
    /\ poll[p].at = "fetch"
    /\ \E skipped \in 0..Len(events) :
          /\ \A i \in DOMAIN events : events[i].ledger < poll[p].start <=> i <= skipped
          /\ LET last == IF skipped + Limit < Len(events) THEN skipped + Limit ELSE Len(events)
             IN  /\ Local(p, [poll[p] EXCEPT !.at = "next", !.start = 0, !.latest = head,
                                 !.batch = SubSeq(events, skipped + 1, last)])
                 /\ damaged' = (damaged \/ last < Len(events))
    /\ UNCHANGED <<chain, linked, row, cursor, owner, faults>>

\* findOne of indexDisputeEvent and openDispute.  Without a row every event but
\* dispute_raised is skipped.
ReadRow(p) ==
    /\ poll[p].at = "next" /\ poll[p].batch # <<>>
    /\ LET skipped == row = NoRow /\ Head(poll[p].batch).kind # "raised"
       IN  Local(p, IF skipped THEN [poll[p] EXCEPT !.batch = Tail(@)]
                    ELSE [poll[p] EXCEPT !.at = "save", !.entity = row])
    /\ UNCHANGED <<chain, linked, row, cursor, owner, faults, damaged>>

\* Mutant: the tallies are counted up, also by the vote of a replay.
WithVote_Counted(d, e) ==
    [d EXCEPT !.votes = @ \cup {[voter |-> e.voter, release |-> e.release]},
              !.releaseVotes = @ + (IF e.release THEN 1 ELSE 0),
              !.refundVotes = @ + (IF e.release THEN 0 ELSE 1),
              !.phase = IF @ = "open" THEN "arbitration" ELSE @]

WithVote(d, e) ==
    LET known == \E v \in d.votes : v.voter = e.voter
        votes == IF known THEN d.votes
                 ELSE d.votes \cup {[voter |-> e.voter, release |-> e.release]}
    IN  [d EXCEPT !.votes = votes, !.releaseVotes = For(votes, TRUE),
                  !.refundVotes = Cardinality(votes) - For(votes, TRUE),
                  !.phase = IF @ = "open" THEN "arbitration" ELSE @]

OutcomeOf(release) == IF release THEN "release" ELSE "refund"

IndexDisputeEvent(d, e) ==
    CASE e.kind = "raised" -> Opened
      [] e.kind = "vote" -> WithVote(d, e)
      [] OTHER -> [d EXCEPT !.outcome = OutcomeOf(e.release), !.phase = e.kind]

\* Without a row the save inserts one; the unique key refuses a second one.
SaveRow(p) ==
    /\ poll[p].at = "save"
    /\ poll[p].entity = NoRow => row = NoRow
    /\ row' = IndexDisputeEvent(poll[p].entity, Head(poll[p].batch))
    /\ Local(p, [poll[p] EXCEPT !.at = "next", !.batch = Tail(@), !.entity = NoRow])
    /\ UNCHANGED <<chain, linked, cursor, owner, faults, damaged>>

\* Mutant: the cursor moves on although the poll threw (a finally block).
PollThrows_Advances(p) ==
    /\ poll[p].at # "idle"
    /\ \/ faults < MaxFaults /\ faults' = faults + 1
       \/ /\ poll[p].at = "save" /\ poll[p].entity = NoRow /\ row # NoRow
          /\ UNCHANGED faults
    /\ Local(p, Idle)
    /\ cursor' = [cursor EXCEPT ![owner[p]] = Max({@, head})]
    /\ UNCHANGED <<chain, linked, row, owner, damaged>>

\* A call of the RPC server or the database throws: the catch of the poll.
PollThrows(p) ==
    /\ poll[p].at # "idle"
    /\ \/ faults < MaxFaults /\ faults' = faults + 1
       \/ /\ poll[p].at = "save" /\ poll[p].entity = NoRow /\ row # NoRow
          /\ UNCHANGED faults
    /\ Local(p, Idle)
    /\ UNCHANGED <<chain, linked, row, cursor, owner, damaged>>

EndPoll(p) ==
    /\ poll[p].at = "next" /\ poll[p].batch = <<>>
    /\ cursor' = [cursor EXCEPT ![owner[p]] = Max({@, poll[p].latest})]
    /\ Local(p, Idle)
    /\ UNCHANGED <<chain, linked, row, owner, faults, damaged>>

\* A process dies and is replaced: onModuleInit, whose call may fail.
Restart(q) ==
    /\ faults < MaxFaults /\ faults' = faults + 1
    /\ poll' = [p \in Polls |-> IF owner[p] = q THEN Idle ELSE poll[p]]
    /\ \E c \in {0, Max({0, head - Lookback})} :
          /\ cursor' = [cursor EXCEPT ![q] = c]
          /\ damaged' = (damaged \/ Between(cursor[q], c))
    /\ UNCHANGED <<chain, linked, row, owner>>

-----------------------------------------------------------------------------

ChainStep ==
    \/ DisputeRaised \/ DisputeFinalized \/ DisputeResolved
    \/ EmptyLedger \/ LinkCampaign
    \/ \E a \in PoolMembers, release \in BOOLEAN : VoteCast(a, release)
PollStep(p) == StartPoll(p) \/ GetEvents(p) \/ ReadRow(p) \/ SaveRow(p) \/ EndPoll(p)

ListenerNext ==
    \/ ChainStep
    \/ \E p \in Polls : PollStep(p) \/ PollThrows(p)
    \/ \E q \in Processes : Restart(q)

ListenerSpec == ListenerInit /\ [][ListenerNext]_listenerVars

-----------------------------------------------------------------------------
(* Properties. *)

ChainPhase ==
    IF Happened("resolved") THEN "resolved"
    ELSE IF Happened("verdict") THEN "verdict"
    ELSE IF Votes # {} THEN "arbitration"
    ELSE IF Happened("raised") THEN "open" ELSE "none"
Rank == [none |-> 0, open |-> 1, arbitration |-> 2, verdict |-> 3, resolved |-> 4]

\* The projection never claims more than the contract decided: its votes and
\* tallies are votes on the chain, its outcome is the verdict, and its phase is
\* not ahead of the contract's; with replayed events, overlapping polls whose
\* stale rows overwrite each other, and restarts.
NeverAhead ==
    /\ row.votes \subseteq Votes
    /\ row.releaseVotes <= For(Votes, TRUE) /\ row.refundVotes <= For(Votes, FALSE)
    /\ row.outcome # "none" => /\ Happened("verdict")
                               /\ row.outcome = OutcomeOf(Verdict)
    /\ Rank[row.phase] <= Rank[ChainPhase]

Projected ==
    /\ row.phase = ChainPhase /\ row.votes = Votes
    /\ row.releaseVotes = For(Votes, TRUE) /\ row.refundVotes = For(Votes, FALSE)
    /\ row.outcome = IF Happened("verdict") THEN OutcomeOf(Verdict) ELSE "none"

\* When every process has caught up with the chain and no poll runs, the row shows
\* the dispute as the chain has it, whatever was replayed after failed polls and
\* restarts, by one replica behind the other.  Excepted are the four ways in which
\* the code loses events: two polls overlap and one saves a stale row, more than
\* Limit events are found, the poll runs before the deal has its contract, and a
\* new process starts behind events that were not indexed.
CaughtUp ==
    /\ \A p \in Polls : poll[p].at = "idle"
    /\ \A p \in Polls : cursor[owner[p]] = head
Converges == CaughtUp => damaged \/ Projected

=============================================================================
