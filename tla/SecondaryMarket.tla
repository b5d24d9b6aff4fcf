-------------------------- MODULE SecondaryMarket --------------------------
(***************************************************************************)
(* The secondary market for one trade token: MarketplaceSettlementService, *)
(* which keeps the book in the table secondary_orders and settles every    *)
(* fill by a contract call, and SecondaryOrderMatchingService, whose cron  *)
(* job sweeps the book every 30 seconds in each replica.                   *)
(*                                                                         *)
(* A step ends where the code awaits the database or the chain.  A pass    *)
(* works on rows it has read, and repository.save writes the whole row     *)
(* back: what others have written since is lost.  Orders are numbered by   *)
(* created_at.  Amounts and prices are integers: rounding to seven digits  *)
(* and QTY_EPSILON, which compensate floating point, are left out.         *)
(***************************************************************************)
EXTENDS Integers, SequencesExt

CONSTANTS
    OrderCount,
    Replicas,
    TermsOf,         \* what each order may ask for
    SortAccepted,    \* FALSE: PostgreSQL refuses the ORDER BY of the makers'
                     \* query, as it does with the code as it is
    Prices,          \* of direct trades
    MaxRequests,     \* bound on cancellations and direct trades
    MaxFaults        \* bound on calls that throw, replicas that die, and sweeps
                     \* started while another replica's is running

Orders == 1..OrderCount

ASSUME MarketAssumption ==
    /\ OrderCount \in Nat /\ SortAccepted \in BOOLEAN
    /\ Prices \subseteq Nat \ {0}
    /\ {MaxRequests, MaxFaults} \subseteq Nat
    /\ DOMAIN TermsOf = Orders
    /\ \A o \in Orders : \A t \in TermsOf[o] :
          /\ t.side \in {"buy", "sell"} /\ t.type \in {"limit", "fok", "stop_loss"}
          /\ {t.price, t.amount} \subseteq Nat \ {0} /\ t.trigger \in Nat
          /\ {t.above, t.expires} \subseteq BOOLEAN

VARIABLES
    terms,       \* what an order asks for, from the check of its request on
    row,         \* the columns that do: [status, filled, armed]
    expired,     \* orders whose expires_at has passed
    lastPrice,   \* of the latest settled trade, 0 while there is none
    sweep,       \* what each replica's sweep is doing, with the rows it holds
    cancelling,  \* cancelOrder calls between their read and their save
    settled,     \* history: size of each order that contract calls settled
    crossed,     \* history: stops whose trigger a price has reached that was
                 \* the market's, or still in the hands of a sweep, since they
                 \* were placed
    faults,      \* history: what can separate the book from the chain
    requests, trouble    \* count the requests and the faults

vars == <<terms, row, expired, lastPrice, sweep, cancelling, settled, crossed,
          faults, requests, trouble>>
history == <<settled, crossed, faults>>
bounds == <<requests, trouble>>

NoRow == [status |-> "none", filled |-> 0, armed |-> FALSE]
NoTerms == [type |-> "none"]
Idle == [at |-> "idle", price |-> 0, todo |-> <<>>, order |-> 0, copy |-> NoRow,
         makers |-> <<>>]

Resting == {"open", "triggered", "partially_filled"}
Terminal == {"filled", "cancelled", "expired"}
Existing == {o \in Orders : row[o].status # "none"}
Open(o, c) == terms[o].amount - c.filled

Init ==
    /\ terms = [o \in Orders |-> NoTerms]
    /\ row = [o \in Orders |-> NoRow]
    /\ expired = {}
    /\ lastPrice = 0
    /\ sweep = [r \in Replicas |-> Idle]
    /\ cancelling = [o \in Orders |-> NoRow]
    /\ settled = [o \in Orders |-> 0]
    /\ crossed = {} /\ faults = {}
    /\ requests = 0 /\ trouble = 0

\* isTriggerSatisfied: the price has reached the trigger in the direction of the
\* stop, which the order asks for (by default up for a buy, down for a sell).
\* Mutant: the directions are swapped.
TriggerSatisfied_Swapped(t, price) ==
    price # 0 /\ t.trigger > 0
      /\ IF t.above THEN price <= t.trigger ELSE price >= t.trigger

TriggerSatisfied(t, price) ==
    price # 0 /\ t.trigger > 0
      /\ IF t.above THEN price >= t.trigger ELSE price <= t.trigger

\* The price reaches the trigger of a stop, whatever the code makes of it.
Reaches(t, price) ==
    /\ t.type = "stop_loss" /\ price # 0
    /\ IF t.above THEN price >= t.trigger ELSE price <= t.trigger

\* A settled trade sets the market price.
Market(price) ==
    /\ lastPrice' = price
    /\ crossed' = crossed \cup {o \in Existing : Reaches(terms[o], price)}

-----------------------------------------------------------------------------
(* The users. *)

\* createOrder, also for createSellOrder and createBuyOrder, up to the save: a
\* stop that the price read has already reached is rejected.
CheckOrder(o, t) ==
    /\ terms[o] = NoTerms
    /\ ~(t.type = "stop_loss" /\ TriggerSatisfied(t, lastPrice))
    /\ terms' = [terms EXCEPT ![o] = t]
    /\ UNCHANGED <<row, expired, lastPrice, sweep, cancelling, history, bounds>>

\* The order is saved.  The call of matchOrder that follows passes the row's id,
\* which is looked up as an orderId: it throws NotFound, and the order waits for
\* the sweep.
SaveOrder(o) ==
    /\ terms[o] # NoTerms /\ o \notin Existing
    /\ \A p \in Orders : p < o => p \in Existing
    /\ row' = [row EXCEPT ![o].status = "open"]
    /\ LET seen == {lastPrice} \cup {sweep[r].price : r \in Replicas}
       IN  crossed' = IF \E price \in seen : Reaches(terms[o], price)
                        THEN crossed \cup {o} ELSE crossed
    /\ UNCHANGED <<terms, expired, lastPrice, sweep, cancelling, settled, faults, bounds>>

\* createSecondaryTrade: a trade without orders.
DirectTrade(price) ==
    /\ requests < MaxRequests /\ requests' = requests + 1
    /\ Market(price)
    /\ UNCHANGED <<terms, row, expired, sweep, cancelling, settled, faults, trouble>>

CancelRead(o) ==
    /\ row[o].status \in Resting /\ cancelling[o] = NoRow
    /\ requests < MaxRequests /\ requests' = requests + 1
    /\ cancelling' = [cancelling EXCEPT ![o] = row[o]]
    /\ UNCHANGED <<terms, row, expired, lastPrice, sweep, history, trouble>>

CancelSave(o) ==
    /\ cancelling[o] # NoRow
    /\ row' = [row EXCEPT ![o] = [cancelling[o] EXCEPT !.status = "cancelled"]]
    /\ cancelling' = [cancelling EXCEPT ![o] = NoRow]
    /\ UNCHANGED <<terms, expired, lastPrice, sweep, history, bounds>>

Expire(o) ==
    /\ o \in Existing \ expired /\ terms[o].expires
    /\ expired' = expired \cup {o}
    /\ UNCHANGED <<terms, row, lastPrice, sweep, cancelling, history, bounds>>

-----------------------------------------------------------------------------
(* runScheduledMatching, matchOpenOrders and matchOrder. *)

Go(r, to) == sweep' = [sweep EXCEPT ![r].at = to]

\* On to the next order of the sweep.
NextOrder(r) ==
    sweep' = [sweep EXCEPT ![r] = [Idle EXCEPT !.at = "next", !.todo = Tail(sweep[r].todo)]]

\* Something goes wrong that may separate the book from the chain.
Trouble(kinds) ==
    /\ trouble < MaxFaults /\ trouble' = trouble + 1
    /\ faults' = faults \cup kinds

\* isProcessing keeps a replica from starting a sweep during its own only.
StartSweep(r) ==
    /\ sweep[r].at = "idle"
    /\ \E o \in Orders : row[o].status \in Resting
    /\ Go(r, "stops")
    /\ IF \E q \in Replicas : sweep[q].at # "idle"
         THEN Trouble({"overlap"})
         ELSE UNCHANGED <<trouble, faults>>
    /\ UNCHANGED <<terms, row, expired, lastPrice, cancelling, settled, crossed, requests>>

\* The sequences of a set's elements in the order of a query, ORDER BY.
InOrder(S, before(_, _)) ==
    {s \in SetToSeqs(S) : \A j, k \in DOMAIN s : j < k => before(s[j], s[k])}

\* The rows of a sequence of orders.
Read(s) == [k \in DOMAIN s |-> [order |-> s[k], copy |-> row[s[k]]]]

\* processStopLossTriggers reads the price; without one it does no more, ...
ReadPrice(r) ==
    /\ sweep[r].at = "stops"
    /\ sweep' = [sweep EXCEPT ![r].at = IF lastPrice = 0 THEN "arm" ELSE "dormant",
                             ![r].price = lastPrice]
    /\ UNCHANGED <<terms, row, expired, lastPrice, cancelling, history, bounds>>

\* ... then the dormant stops, of which it arms those that this price reaches ...
FindStops(r) ==
    /\ sweep[r].at = "dormant"
    /\ LET stops == {o \in Existing : /\ terms[o].type = "stop_loss"
                                      /\ row[o].status = "open"
                                      /\ TriggerSatisfied(terms[o], sweep[r].price)}
       IN  \E s \in SetToSeqs(stops) :
              sweep' = [sweep EXCEPT ![r].at = "arm", ![r].price = 0,
                                     ![r].makers = Read(s)]
    /\ UNCHANGED <<terms, row, expired, lastPrice, cancelling, history, bounds>>

\* ... and saves them one by one.
ArmStop(r) ==
    /\ sweep[r].at = "arm" /\ sweep[r].makers # <<>>
    /\ LET m == Head(sweep[r].makers)
       IN  row' = [row EXCEPT ![m.order] = [m.copy EXCEPT !.status = "triggered",
                                                          !.armed = TRUE]]
    /\ sweep' = [sweep EXCEPT ![r].makers = Tail(@)]
    /\ UNCHANGED <<terms, expired, lastPrice, cancelling, history, bounds>>

ListOrders(r) ==
    /\ sweep[r].at = "arm" /\ sweep[r].makers = <<>>
    /\ \E s \in InOrder({o \in Orders : row[o].status \in Resting}, LAMBDA o, p : o < p) :
          sweep' = [sweep EXCEPT ![r].at = "next", ![r].todo = s]
    /\ UNCHANGED <<terms, row, expired, lastPrice, cancelling, history, bounds>>

EndSweep(r) ==
    /\ sweep[r].at = "next" /\ sweep[r].todo = <<>>
    /\ sweep' = [sweep EXCEPT ![r] = Idle]
    /\ UNCHANGED <<terms, row, expired, lastPrice, cancelling, history, bounds>>

\* Mutant: isTerminal is not asked, the list of the sweep is trusted.
MatchOrder_Listed(r) ==
    /\ sweep[r].at = "next" /\ sweep[r].todo # <<>>
    /\ LET o == Head(sweep[r].todo)
       IN  sweep' = [sweep EXCEPT ![r].order = o, ![r].copy = row[o],
                 ![r].at = IF o \in expired THEN "expire"
                           ELSE IF terms[o].type = "stop_loss" /\ ~row[o].armed THEN "stop"
                           ELSE "find"]
    /\ UNCHANGED <<terms, row, expired, lastPrice, cancelling, history, bounds>>

\* matchOrder up to its first save: the order is read again.
MatchOrder(r) ==
    /\ sweep[r].at = "next" /\ sweep[r].todo # <<>>
    /\ LET o == Head(sweep[r].todo)
       IN  IF row[o].status \in Terminal
             THEN NextOrder(r)
             ELSE sweep' = [sweep EXCEPT ![r].order = o, ![r].copy = row[o],
                      ![r].at = IF o \in expired THEN "expire"
                                ELSE IF terms[o].type = "stop_loss" /\ ~row[o].armed
                                THEN "stop" ELSE "find"]
    /\ UNCHANGED <<terms, row, expired, lastPrice, cancelling, history, bounds>>

ExpireOrder(r) ==
    /\ sweep[r].at = "expire"
    /\ row' = [row EXCEPT ![sweep[r].order] = [sweep[r].copy EXCEPT !.status = "expired"]]
    /\ NextOrder(r)
    /\ UNCHANGED <<terms, expired, lastPrice, cancelling, history, bounds>>

\* A dormant stop: the price is read ...
CheckTrigger(r) ==
    /\ sweep[r].at = "stop"
    /\ IF TriggerSatisfied(terms[sweep[r].order], lastPrice)
         THEN Go(r, "trigger") ELSE NextOrder(r)
    /\ UNCHANGED <<terms, row, expired, lastPrice, cancelling, history, bounds>>

\* ... and the order is saved as triggered, from the row read before.
TriggerOrder(r) ==
    /\ sweep[r].at = "trigger"
    /\ LET c == [sweep[r].copy EXCEPT !.status = "triggered", !.armed = TRUE]
       IN  /\ row' = [row EXCEPT ![sweep[r].order] = c]
           /\ sweep' = [sweep EXCEPT ![r].copy = c, ![r].at = "find"]
    /\ UNCHANGED <<terms, expired, lastPrice, cancelling, history, bounds>>

Crosses(o, m) ==
    /\ terms[m].side # terms[o].side
    /\ IF terms[o].side = "buy" THEN terms[m].price <= terms[o].price
                                ELSE terms[m].price >= terms[o].price

\* The WHERE of findCrossingMakers, and the ORDER BY it is meant to have: best
\* price, then oldest.
CrossingMakers(o) ==
    {m \in Existing : /\ Crosses(o, m) /\ m \notin expired
                      /\ row[m].status \in Resting
                      /\ row[m].filled < terms[m].amount
                      /\ (terms[m].type # "stop_loss" \/ row[m].armed)}

Better(o, m, n) ==
    \/ terms[m].price = terms[n].price /\ m < n
    \/ terms[m].price # terms[n].price
         /\ ((terms[m].price < terms[n].price) <=> (terms[o].side = "buy"))

\* The makers that are not the taker's own, the only ones that can be filled.
FindCrossingMakers(o) ==
    InOrder({m \in CrossingMakers(o) : terms[m].user # terms[o].user},
            LAMBDA m, n : Better(o, m, n))

Available(makers) == FoldLeft(LAMBDA sum, m : sum + Open(m.order, m.copy), 0, makers)

\* orderBy gets the direction twice, in the name of the column and as its second
\* argument: 'm.price_per_token ASC ASC' is refused, every time the code as it is
\* comes here, and matchOpenOrders goes on with the next order.
QueryThrows(r) ==
    /\ sweep[r].at = "find"
    /\ NextOrder(r)
    /\ UNCHANGED <<terms, row, expired, lastPrice, cancelling, history, bounds>>

\* What the code is written for.  A fill-or-kill order that the book cannot fill
\* is killed.
FindMakers(r) ==
    /\ SortAccepted
    /\ sweep[r].at = "find"
    /\ \E s \in FindCrossingMakers(sweep[r].order) :
         LET o == sweep[r].order
             short == /\ terms[o].type = "fok"
                      /\ Available(Read(s)) < Open(o, sweep[r].copy)
         IN  sweep' = [sweep EXCEPT ![r].makers = IF short THEN <<>> ELSE Read(s),
                                    ![r].at = IF short THEN "kill" ELSE "fill"]
    /\ UNCHANGED <<terms, row, expired, lastPrice, cancelling, history, bounds>>

KillOrder(r) ==
    /\ sweep[r].at = "kill"
    /\ row' = [row EXCEPT ![sweep[r].order] = [sweep[r].copy EXCEPT !.status = "cancelled"]]
    /\ NextOrder(r)
    /\ UNCHANGED <<terms, expired, lastPrice, cancelling, history, bounds>>

\* The row after a fill.
Filled(o, c, amount) ==
    [c EXCEPT !.filled = @ + amount,
              !.status = IF c.filled + amount >= terms[o].amount THEN "filled"
                                                                 ELSE "partially_filled"]

FillAmount(r) ==
    LET s == sweep[r]
        m == Head(s.makers)
        theirs == Open(m.order, m.copy)
        ours == Open(s.order, s.copy)
    IN  IF ours < theirs THEN ours ELSE theirs

\* The rows after a fill, still to be saved.
Take(r, amount) ==
    LET s == sweep[r]
        m == Head(s.makers)
    IN  sweep' = [sweep EXCEPT ![r].at = "taker",
            ![r].copy = Filled(s.order, s.copy, amount),
            ![r].makers = <<[m EXCEPT !.copy = Filled(m.order, m.copy, amount)]>> \o Tail(@)]

Filling(r) ==
    sweep[r].at = "fill" /\ sweep[r].makers # <<>> /\ Open(sweep[r].order, sweep[r].copy) > 0

\* The contract call of a fill takes effect for both orders.
Settle(r) ==
    LET both == {sweep[r].order, Head(sweep[r].makers).order}
    IN  settled' = [o \in Orders |-> settled[o] + (IF o \in both THEN FillAmount(r) ELSE 0)]

\* recordFill: the contract call and the save of the trade as settled.
RecordFill(r) ==
    /\ Filling(r)
    /\ Settle(r)
    /\ Market(terms[Head(sweep[r].makers).order].price)
    /\ Take(r, FillAmount(r))
    /\ UNCHANGED <<terms, row, expired, cancelling, faults, bounds>>

\* Mutant: the fill is counted although its settlement threw.
FillThrows_Counted(r) ==
    /\ Filling(r) /\ Trouble({})
    /\ Take(r, FillAmount(r))
    /\ UNCHANGED <<terms, row, expired, lastPrice, cancelling, settled, crossed, requests>>

\* It throws: the loop ends and the size stays on the book.  A transaction that
\* timed out can still have been applied, and so has one whose trade could not
\* be saved afterwards.
FillThrows(r) ==
    /\ Filling(r)
    /\ \/ Trouble({}) /\ UNCHANGED settled
       \/ Trouble({"lost"}) /\ Settle(r)
    /\ NextOrder(r)
    /\ UNCHANGED <<terms, row, expired, lastPrice, cancelling, crossed, requests>>

FillsDone(r) ==
    /\ sweep[r].at = "fill" /\ ~Filling(r)
    /\ NextOrder(r)
    /\ UNCHANGED <<terms, row, expired, lastPrice, cancelling, history, bounds>>

SaveTaker(r) ==
    /\ sweep[r].at = "taker"
    /\ row' = [row EXCEPT ![sweep[r].order] = sweep[r].copy]
    /\ Go(r, "maker")
    /\ UNCHANGED <<terms, expired, lastPrice, cancelling, history, bounds>>

\* Mutant: the maker's leg is not saved.
SaveMaker_Skipped(r) ==
    /\ sweep[r].at = "maker"
    /\ sweep' = [sweep EXCEPT ![r].at = "fill", ![r].makers = Tail(@)]
    /\ UNCHANGED <<terms, row, expired, lastPrice, cancelling, history, bounds>>

SaveMaker(r) ==
    /\ sweep[r].at = "maker"
    /\ LET m == Head(sweep[r].makers) IN row' = [row EXCEPT ![m.order] = m.copy]
    /\ sweep' = [sweep EXCEPT ![r].at = "fill", ![r].makers = Tail(@)]
    /\ UNCHANGED <<terms, expired, lastPrice, cancelling, history, bounds>>

\* A query or a save throws: matchOpenOrders goes on with the next order.
MatchThrows(r) ==
    /\ sweep[r].at \in {"expire", "stop", "trigger", "kill", "taker", "maker"}
    /\ Trouble(IF sweep[r].at \in {"taker", "maker"} THEN {"lost"} ELSE {})
    /\ NextOrder(r)
    /\ UNCHANGED <<terms, row, expired, lastPrice, cancelling, settled, crossed, requests>>

\* The process dies, or a call outside matchOrder throws and ends the sweep;
\* between settlement and the saves the fill is forgotten.
Crash(r) ==
    /\ sweep[r].at # "idle"
    /\ Trouble(IF sweep[r].at \in {"taker", "maker"} THEN {"lost"} ELSE {})
    /\ sweep' = [sweep EXCEPT ![r] = Idle]
    /\ UNCHANGED <<terms, row, expired, lastPrice, cancelling, settled, crossed, requests>>

-----------------------------------------------------------------------------
Step(r) ==
    \/ ReadPrice(r) \/ FindStops(r) \/ ArmStop(r) \/ ListOrders(r) \/ EndSweep(r)
    \/ MatchOrder(r) \/ ExpireOrder(r) \/ CheckTrigger(r) \/ TriggerOrder(r)
    \/ QueryThrows(r) \/ FindMakers(r) \/ KillOrder(r)
    \/ RecordFill(r) \/ FillThrows(r) \/ FillsDone(r) \/ SaveTaker(r) \/ SaveMaker(r)
    \/ MatchThrows(r)

Next ==
    \/ \E o \in Orders : \/ \E t \in TermsOf[o] : CheckOrder(o, t)
                         \/ SaveOrder(o) \/ CancelRead(o) \/ CancelSave(o) \/ Expire(o)
    \/ \E p \in Prices : DirectTrade(p)
    \/ \E r \in Replicas : StartSweep(r) \/ Step(r) \/ Crash(r)

\* The cron job fires again and again in every replica, and a started pass or
\* cancellation goes on.
Fairness ==
    /\ \A r \in Replicas : WF_vars(StartSweep(r)) /\ WF_vars(Step(r))
    /\ \A o \in Orders : WF_vars(CancelSave(o))

Spec == Init /\ [][Next]_vars
FairSpec == Spec /\ Fairness

-----------------------------------------------------------------------------
Rows == [status : Resting \cup Terminal \cup {"none"}, filled : Nat, armed : BOOLEAN]

\* Type invariant.
TypeOK ==
    /\ \A o \in Orders : terms[o] \in TermsOf[o] \cup {NoTerms}
    /\ row \in [Orders -> Rows] /\ cancelling \in [Orders -> Rows]
    /\ expired \subseteq Orders /\ crossed \subseteq Orders
    /\ lastPrice \in Nat /\ settled \in [Orders -> Nat]
    /\ faults \subseteq {"overlap", "lost"}

\* Somebody has read the order while it was on the book and may still write it.
Held(o) ==
    \/ cancelling[o] # NoRow
    \/ \E r \in Replicas :
          \/ /\ sweep[r].order = o
             /\ sweep[r].copy.status \in Resting \/ sweep[r].at \in {"taker", "maker"}
          \/ \E k \in 1..Len(sweep[r].makers) : sweep[r].makers[k].order = o

\* No order is settled beyond its size, unless sweeps of two replicas overlapped
\* or a settled fill was not written down; cancellations at any moment do not
\* matter.
SettledWithinSize ==
    faults = {} => \A o \in Existing : settled[o] <= terms[o].amount

\* The book never claims a fill that the chain has not settled, whatever was
\* overwritten, repeated or forgotten.
FilledIsSettled == \A o \in Orders : row[o].filled <= settled[o]

\* A stop order is neither armed nor settled before its trigger has been reached
\* by a price that was the market's since it was placed, or that a sweep then
\* under way had read just before: an older price does not move it.
DormantUntouched ==
    \A o \in Existing :
        terms[o].type = "stop_loss" /\ (row[o].armed \/ settled[o] > 0) => o \in crossed

\* An order that is filled, cancelled or expired, and of which nobody holds an
\* older row, is final: it is neither put back on the book nor settled.
FinalStays ==
    \A o \in Orders :
        row[o].status \in Terminal /\ ~Held(o)
          => row'[o] = row[o] /\ settled'[o] = settled[o]
TerminalIsFinal == [][FinalStays]_vars

\* Two orders of different users that the sweep would match.
Tradable(o, m) ==
    /\ {o, m} \subseteq Existing
    /\ row[o].status \in Resting /\ row[m].status \in Resting
    /\ {o, m} \cap expired = {}
    /\ terms[o].user # terms[m].user /\ Crosses(o, m)
    /\ \A k \in {o, m} : terms[k].type # "stop_loss" \/ row[k].armed

\* Orders that cross do not stay on the book: the sweep settles them in the end,
\* or kills a fill-or-kill order it cannot fill.  (Not with the code as it is.)
Crossed == \E o, m \in Orders : Tradable(o, m)
CrossedTrade == Crossed ~> ~Crossed

\* The service's comment: fok "must be fillable in full at submission time or it
\* is cancelled immediately".
FokNeverRests ==
    \A o \in Existing : terms[o].type = "fok" /\ ~Held(o) => row[o].status \in Terminal
=============================================================================
