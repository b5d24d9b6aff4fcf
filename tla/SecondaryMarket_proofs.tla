----------------------- MODULE SecondaryMarket_proofs -----------------------
(***************************************************************************)
(* Theorems about the secondary market for any number of orders, of        *)
(* replicas that sweep the book, and of cancellations, faults and direct   *)
(* trades.  A sweep works on copies of rows, so every invariant here is    *)
(* about the copies as much as about the rows: what a copy claims was      *)
(* settled on the chain, and what has been settled is never taken back.    *)
(***************************************************************************)
EXTENDS SecondaryMarket, SequenceTheorems, FiniteSetTheorems, TLAPS

\* The steps of a sweep that hold a copy of the order to be matched.
Matching == {"expire", "stop", "trigger", "find", "kill", "fill", "taker", "maker"}

\* The steps between a settled fill and the save of both rows.
Saving == {"taker", "maker"}

Steps == Matching \cup {"idle", "stops", "dormant", "arm", "next"}
Makers == [order : Orders, copy : Rows]
Passes == [at : Steps, price : Nat, todo : Seq(Orders), order : 0..OrderCount,
           copy : Rows, makers : Seq(Makers)]
AllTerms == {NoTerms} \cup UNION {TermsOf[o] : o \in Orders}

Types ==
    /\ terms \in [Orders -> AllTerms]
    /\ row \in [Orders -> Rows] /\ cancelling \in [Orders -> Rows]
    /\ settled \in [Orders -> Nat] /\ lastPrice \in Nat
    /\ sweep \in [Replicas -> Passes]

\* A copy of the row of order o claims no more than was settled, and is armed
\* only if a price has reached the trigger.
CopyOK(o, c) == c.filled <= settled[o] /\ (c.armed => o \in crossed)

\* A stop order that takes part in fills has been reached by a price.
Reached(o) == terms[o].type = "stop_loss" => o \in crossed

\* What a sweep at record s may rely on.
TakerOK(s) ==
    s.at \in Matching =>
       /\ s.todo # <<>> /\ s.order \in Existing
       /\ CopyOK(s.order, s.copy)
       /\ s.at \in {"stop", "trigger"} => terms[s.order].type = "stop_loss"
       /\ s.at \notin {"expire", "stop"} => Reached(s.order)
MakersOK(s) ==
    \A k \in 1..Len(s.makers) :
       LET m == s.makers[k] IN
       /\ m.order \in Existing
       /\ CopyOK(m.order, m.copy)
       /\ Reached(m.order)
       /\ s.at = "arm" => m.order \in crossed
TodoOK(s) == \A k \in 1..Len(s.todo) : s.todo[k] \in Existing

\* A maker that is still to be filled has an open size.
UnfilledOK(s) ==
    \A k \in 1..Len(s.makers) :
       s.at = "fill" \/ (s.at \in Saving /\ k # 1)
         => s.makers[k].copy.filled < terms[s.makers[k].order].amount

\* Rows that were on the book when they were read, or a fill to be saved.
FillStatuses == {"filled", "partially_filled"}
StatusOK(s) ==
    /\ s.at \in {"expire", "stop", "trigger", "find", "kill"} => s.copy.status \in Resting
    /\ s.at = "fill" \/ s.at \in Saving =>
          s.copy.status \in Resting \/ s.copy.filled >= terms[s.order].amount
    /\ s.at \in {"idle", "stops", "dormant"} => s.makers = <<>>
    /\ s.at \in Saving =>
          /\ s.makers # <<>> /\ s.copy.status \in FillStatuses
          /\ s.makers[1].copy.status \in FillStatuses

PassOK(s) == TakerOK(s) /\ MakersOK(s) /\ TodoOK(s) /\ UnfilledOK(s) /\ StatusOK(s)

OrderOK(o) ==
    /\ CopyOK(o, row[o]) /\ CopyOK(o, cancelling[o])
    /\ o \in Existing =>
          /\ terms[o] \in TermsOf[o]
          /\ Reaches(terms[o], lastPrice) => o \in crossed
          /\ settled[o] > 0 => Reached(o)
    /\ o \notin Existing => /\ terms[o] \in TermsOf[o] \cup {NoTerms} /\ settled[o] = 0
                           /\ row[o] = NoRow /\ cancelling[o] = NoRow

BookInv ==
    /\ Types
    /\ \A o \in Orders : OrderOK(o)
    /\ \A r \in Replicas : PassOK(sweep[r])

\* The stops that a price reaches count as reached, ...
Covered(price) == \A o \in Existing : Reaches(terms[o], price) => o \in crossed

\* ... also with the price in the hands of a sweep, which may be older than the
\* stops that the sweep finds next.
PriceInv == \A r \in Replicas : Covered(sweep[r].price)

-----------------------------------------------------------------------------
(* Sequences. *)

\* The first element and the rest of a sequence.
LEMMA HeadTail ==
    ASSUME NEW T, NEW s \in Seq(T), s # <<>>
    PROVE  /\ Head(s) = s[1] /\ s[1] \in T /\ 1 \in 1..Len(s) /\ Len(s) \in Nat
           /\ Tail(s) \in Seq(T) /\ Len(Tail(s)) = Len(s) - 1
           /\ \A k \in 1..Len(Tail(s)) : k + 1 \in 1..Len(s) /\ Tail(s)[k] = s[k + 1]
OBVIOUS

\* A sequence whose first element is replaced.
LEMMA NewHead ==
    ASSUME NEW T, NEW s \in Seq(T), s # <<>>, NEW x \in T
    PROVE  /\ <<x>> \o Tail(s) \in Seq(T) /\ Len(<<x>> \o Tail(s)) = Len(s)
           /\ <<x>> \o Tail(s) # <<>> /\ (<<x>> \o Tail(s))[1] = x
           /\ \A k \in 1..Len(s) : k # 1 => (<<x>> \o Tail(s))[k] = s[k]
OBVIOUS

\* The rows read for a sequence of orders.
LEMMA ReadRows ==
    ASSUME row \in [Orders -> Rows], OrderCount \in Nat,
           NEW S \in SUBSET Orders, NEW s \in SetToSeqs(S)
    PROVE  /\ s \in Seq(Orders) /\ Read(s) \in Seq(Makers) /\ Len(Read(s)) = Len(s)
           /\ \A k \in 1..Len(s) : /\ s[k] \in S
                                   /\ Read(s)[k].order = s[k]
                                   /\ Read(s)[k].copy = row[s[k]]
           /\ \A k, l \in 1..Len(s) : k # l => s[k] # s[l]
<1>1. IsFiniteSet(S)
  <2>1. IsFiniteSet(1..OrderCount)
      BY FS_Interval
  <2> QED
      BY <2>1, FS_Subset DEF Orders
<1>2. Cardinality(S) \in Nat
    BY <1>1, FS_CardinalityType
<1>3. /\ s \in [1..Cardinality(S) -> S]
      /\ \A k, l \in 1..Cardinality(S) : k # l => s[k] # s[l]
    BY DEF SetToSeqs
<1>4. s \in Seq(Orders) /\ Len(s) = Cardinality(S) /\ DOMAIN s = 1..Cardinality(S)
    BY <1>2, <1>3
<1>5. Read(s) = [k \in 1..Cardinality(S) |-> [order |-> s[k], copy |-> row[s[k]]]]
    BY <1>4 DEF Read
<1>6. \A k \in 1..Cardinality(S) : [order |-> s[k], copy |-> row[s[k]]] \in Makers
    BY <1>3 DEF Makers
<1>7. Read(s) \in Seq(Makers) /\ Len(Read(s)) = Cardinality(S)
    BY <1>2, <1>5, <1>6
<1> QED
    BY <1>3, <1>4, <1>5, <1>7
-----------------------------------------------------------------------------
(* The book. *)

\* The record of a sweep between two orders, and at rest.
LEMMA NoPass ==
    /\ NoRow \in Rows
    /\ Idle \in Passes
    /\ PassOK(Idle)
<1>1. NoRow \in Rows
    BY DEF NoRow, Rows
<1>2. Idle \in Passes
  <2>1. <<>> \in Seq(Orders) /\ <<>> \in Seq(Makers) /\ 0 \in 0..OrderCount /\ 0 \in Nat
      BY MarketAssumption
  <2> QED
      BY <1>1, <2>1 DEF Idle, Passes, Steps
<1>3. PassOK(Idle)
    BY DEF PassOK, TakerOK, MakersOK, TodoOK, UnfilledOK, StatusOK, Idle, Matching, Saving
<1> QED
    BY <1>1, <1>2, <1>3

LEMMA BookInit == Init => BookInv
<1> SUFFICES ASSUME Init PROVE BookInv
    OBVIOUS
<1>1. NoRow.filled = 0 /\ NoRow.armed = FALSE /\ NoRow.status = "none"
    BY DEF NoRow
<1>2. Types
    BY NoPass DEF Init, Types, AllTerms
<1>3. Existing = {}
    BY <1>1 DEF Init, Existing
<1>4. \A o \in Orders : OrderOK(o)
    BY <1>1, <1>3 DEF Init, OrderOK, CopyOK
<1> QED
    BY <1>2, <1>4, NoPass DEF BookInv, Init

\* What every step leaves true: nothing settled or reached is taken back, and
\* the terms of an order do not change.
Grows ==
    /\ \A o \in Orders : settled[o] <= settled'[o]
    /\ crossed \subseteq crossed'
    /\ \A o \in Existing : o \in Existing' /\ terms'[o] = terms[o]

\* A copy that was right stays right.
LEMMA CopyStays ==
    ASSUME Types, Types', Grows, NEW o \in Orders, NEW c \in Rows, CopyOK(o, c)
    PROVE  CopyOK(o, c)'
<1>1. c.filled \in Nat
    BY DEF Rows
<1>2. settled[o] \in Nat /\ settled'[o] \in Nat /\ settled[o] <= settled'[o]
    BY DEF Types, Grows
<1>3. ASSUME NEW a \in Nat, NEW b \in Nat, NEW d \in Nat, a <= b, b <= d PROVE a <= d
    BY <1>3
<1>4. c.filled <= settled'[o]
    BY <1>1, <1>2, <1>3 DEF CopyOK
<1> QED
    BY <1>4 DEF CopyOK, Grows

\* A sweep that is not disturbed stays right.
LEMMA PassStays ==
    ASSUME Types, Types', Grows, NEW s \in Passes, PassOK(s)
    PROVE  PassOK(s)'
<1>1. Existing \subseteq Orders
    BY DEF Existing
<1>2. \A o \in Existing : Reached(o) => Reached(o)'
    BY DEF Reached, Grows
<1>3. s.copy \in Rows /\ s.makers \in Seq(Makers)
    BY DEF Passes
<1>4. TakerOK(s)'
    BY <1>1, <1>2, <1>3, CopyStays DEF PassOK, TakerOK, Grows
<1>5. MakersOK(s)'
  <2> SUFFICES ASSUME NEW k \in 1..Len(s.makers)
               PROVE  LET m == s.makers[k] IN
                      /\ m.order \in Existing'
                      /\ CopyOK(m.order, m.copy)'
                      /\ Reached(m.order)'
                      /\ s.at = "arm" => m.order \in crossed'
      BY DEF MakersOK
  <2> DEFINE m == s.makers[k]
  <2>1. /\ m.order \in Existing /\ CopyOK(m.order, m.copy) /\ Reached(m.order)
        /\ s.at = "arm" => m.order \in crossed
      BY DEF PassOK, MakersOK
  <2>2. m.order \in Orders /\ m.copy \in Rows
    <3>1. m \in Makers
        BY <1>3
    <3> QED
        BY <3>1 DEF Makers
  <2> HIDE DEF m
  <2>3. CopyOK(m.order, m.copy)'
      BY <2>1, <2>2, CopyStays
  <2>4. m.order \in Existing' /\ Reached(m.order)' /\ (s.at = "arm" => m.order \in crossed')
      BY <1>2, <2>1 DEF Grows
  <2> QED
      BY <2>3, <2>4 DEF m
<1>6. TodoOK(s)'
    BY DEF PassOK, TodoOK, Grows
<1>7. StatusOK(s)'
  <2>1. s.at = "fill" \/ s.at \in Saving => terms'[s.order] = terms[s.order]
      BY DEF PassOK, TakerOK, Grows, Matching, Saving
  <2> QED
      BY <2>1 DEF PassOK, StatusOK
<1>8. UnfilledOK(s)'
    BY DEF PassOK, UnfilledOK, MakersOK, Grows
<1> QED
    BY <1>4, <1>5, <1>6, <1>7, <1>8 DEF PassOK

\* A step writes at most one row, and what it writes is right.
RowWritten ==
    \/ row' = row
    \/ \E o \in Existing, c \in Rows :
          CopyOK(o, c) /\ c.status # "none" /\ row' = [row EXCEPT ![o] = c]

\* The part of BookInv about the orders, after a step that settles nothing.
LEMMA OrdersStay ==
    ASSUME BookInv, RowWritten,
           UNCHANGED <<terms, lastPrice, cancelling, settled, crossed>>
    PROVE  /\ Grows /\ row' \in [Orders -> Rows]
           /\ \A n \in Orders : OrderOK(n)'
<1>1. Types /\ \A n \in Orders : OrderOK(n)
    BY DEF BookInv
<1>2. \A n \in Orders :
         \/ row'[n] = row[n]
         \/ n \in Existing /\ row'[n].status # "none" /\ CopyOK(n, row'[n])
    BY <1>1 DEF RowWritten, Types, Existing
<1>3. Existing' = Existing
    BY <1>1, <1>2 DEF Existing
<1>4. \A n \in Orders : settled[n] <= settled[n]
  <2>1. \A n \in Orders : settled[n] \in Nat
      BY <1>1 DEF Types
  <2> QED
      BY <2>1
<1>5. Grows
    BY <1>3, <1>4 DEF Grows
<1>6. ASSUME NEW n \in Orders PROVE OrderOK(n)'
  <2>1. CopyOK(n, row[n])' /\ CopyOK(n, cancelling[n])'
      BY <1>1, <1>2, <1>6 DEF OrderOK, CopyOK
  <2>2. n \notin Existing => row'[n] = row[n]
      BY <1>2
  <2> QED
      BY <1>1, <1>3, <1>6, <2>1, <2>2 DEF OrderOK, Reached
<1>7. row' \in [Orders -> Rows]
    BY <1>1 DEF RowWritten, Types
<1> QED
    BY <1>5, <1>6, <1>7

\* A step of one sweep that settles nothing.
LEMMA PassMoves ==
    ASSUME BookInv, RowWritten,
           UNCHANGED <<terms, lastPrice, cancelling, settled, crossed>>,
           NEW r \in Replicas, NEW p \in Passes, PassOK(p),
           sweep' = [sweep EXCEPT ![r] = p]
    PROVE  BookInv'
<1>1. /\ Grows /\ row' \in [Orders -> Rows]
      /\ \A n \in Orders : OrderOK(n)'
    BY OrdersStay
<1>2. Types /\ Types'
    BY <1>1 DEF BookInv, Types
<1>3. \A q \in Replicas : sweep'[q] \in Passes /\ PassOK(sweep'[q])
    BY <1>2 DEF BookInv, Types
<1>4. ASSUME NEW q \in Replicas PROVE PassOK(sweep[q])'
  <2>1. PICK s \in Passes : s = sweep'[q] /\ PassOK(s)
      BY <1>3
  <2>2. PassOK(s)'
      BY <1>1, <1>2, <2>1, PassStays
  <2> QED
      BY <2>1, <2>2
<1> QED
    BY <1>1, <1>2, <1>4 DEF BookInv

\* On to the next order.
LEMMA NextPass ==
    ASSUME BookInv, NEW r \in Replicas, sweep[r].todo # <<>>
    PROVE  LET p == [Idle EXCEPT !.at = "next", !.todo = Tail(sweep[r].todo)]
           IN  p \in Passes /\ PassOK(p)
<1> DEFINE p == [Idle EXCEPT !.at = "next", !.todo = Tail(sweep[r].todo)]
<1>1. sweep[r] \in Passes /\ PassOK(sweep[r])
    BY DEF BookInv, Types
<1>2. sweep[r].todo \in Seq(Orders)
    BY <1>1 DEF Passes
<1>3. /\ Tail(sweep[r].todo) \in Seq(Orders)
      /\ \A k \in 1..Len(Tail(sweep[r].todo)) :
            /\ k + 1 \in 1..Len(sweep[r].todo)
            /\ Tail(sweep[r].todo)[k] = sweep[r].todo[k + 1]
    BY <1>2, HeadTail
<1>4. /\ p.at = "next" /\ p.todo = Tail(sweep[r].todo) /\ p.makers = <<>>
      /\ p \in Passes
    BY <1>3, NoPass DEF Idle, Passes, Steps
<1>5. TodoOK(p)
    BY <1>1, <1>3, <1>4 DEF PassOK, TodoOK
<1>6. TakerOK(p) /\ MakersOK(p) /\ StatusOK(p) /\ UnfilledOK(p)
    BY <1>4 DEF TakerOK, MakersOK, StatusOK, UnfilledOK, Matching, Saving
<1> QED
    BY <1>4, <1>5, <1>6 DEF PassOK
\* What is known of a sweep and of the order it works on.
LEMMA PassFacts ==
    ASSUME BookInv, NEW r \in Replicas
    PROVE  /\ sweep[r] \in Passes
           /\ sweep[r].at \in Steps /\ sweep[r].todo \in Seq(Orders)
           /\ sweep[r].order \in 0..OrderCount /\ sweep[r].price \in Nat
           /\ sweep[r].copy \in Rows /\ sweep[r].makers \in Seq(Makers)
           /\ TakerOK(sweep[r]) /\ MakersOK(sweep[r]) /\ TodoOK(sweep[r])
           /\ UnfilledOK(sweep[r]) /\ StatusOK(sweep[r])
BY DEF BookInv, Types, Passes, PassOK

LEMMA SweepStarts ==
    ASSUME BookInv, NEW r \in Replicas, StartSweep(r)
    PROVE  BookInv'
<1>1. PICK p : p = [sweep[r] EXCEPT !.at = "stops"]
    OBVIOUS
<1>2. /\ sweep' = [sweep EXCEPT ![r] = p] /\ sweep[r].at = "idle"
      /\ UNCHANGED <<terms, lastPrice, cancelling, settled, crossed, row>>
    BY <1>1 DEF StartSweep, Go
<1>3. /\ p \in Passes /\ p.at = "stops" /\ p.makers = sweep[r].makers
      /\ p.todo = sweep[r].todo
    BY <1>1, PassFacts DEF Passes, Steps
<1>4. PassOK(p)
    BY <1>2, <1>3, PassFacts
    DEF PassOK, TakerOK, MakersOK, TodoOK, UnfilledOK, StatusOK, Matching, Saving
<1> QED
    BY <1>2, <1>3, <1>4, PassMoves DEF RowWritten

LEMMA PriceRead ==
    ASSUME BookInv, NEW r \in Replicas, ReadPrice(r)
    PROVE  BookInv'
<1>0. PICK x \in {"arm", "dormant"} :
         sweep' = [sweep EXCEPT ![r].at = x, ![r].price = lastPrice]
    BY DEF ReadPrice
<1>1. PICK p : p = [sweep[r] EXCEPT !.at = x, !.price = lastPrice]
    OBVIOUS
<1>2. /\ sweep' = [sweep EXCEPT ![r] = p] /\ sweep[r].at = "stops"
      /\ UNCHANGED <<terms, lastPrice, cancelling, settled, crossed, row>>
    BY <1>0, <1>1 DEF ReadPrice, history
<1>3. /\ p \in Passes /\ p.at = x /\ p.makers = <<>>
      /\ p.todo = sweep[r].todo
    BY <1>0, <1>1, <1>2, PassFacts DEF Passes, Steps, StatusOK, BookInv, Types
<1>4. MakersOK(p)
    BY <1>3 DEF MakersOK
<1>5. TakerOK(p) /\ TodoOK(p) /\ UnfilledOK(p) /\ StatusOK(p)
    BY <1>3, PassFacts DEF TakerOK, TodoOK, UnfilledOK, StatusOK, Matching, Saving
<1> QED
    BY <1>2, <1>3, <1>4, <1>5, PassMoves DEF RowWritten, PassOK

LEMMA StopsFound ==
    ASSUME BookInv, NEW r \in Replicas, Covered(sweep[r].price), FindStops(r)
    PROVE  BookInv'
<1> DEFINE stops == {o \in Existing : /\ terms[o].type = "stop_loss"
                                      /\ row[o].status = "open"
                                      /\ TriggerSatisfied(terms[o], sweep[r].price)}
<1>1. PICK s \in SetToSeqs(stops) :
         sweep' = [sweep EXCEPT ![r].at = "arm", ![r].price = 0, ![r].makers = Read(s)]
    BY DEF FindStops
<1>2. PICK p : p = [sweep[r] EXCEPT !.at = "arm", !.price = 0, !.makers = Read(s)]
    OBVIOUS
<1>3. /\ sweep' = [sweep EXCEPT ![r] = p]
      /\ UNCHANGED <<terms, lastPrice, cancelling, settled, crossed, row>>
    BY <1>1, <1>2 DEF FindStops, history
<1>4. stops \in SUBSET Orders
    BY DEF Existing
<1>5. /\ Read(s) \in Seq(Makers) /\ Len(Read(s)) = Len(s)
      /\ \A k \in 1..Len(s) : /\ s[k] \in stops
                              /\ Read(s)[k].order = s[k]
                              /\ Read(s)[k].copy = row[s[k]]
  <2> HIDE DEF stops
  <2> QED
      BY <1>4, ReadRows, MarketAssumption, SMTT(30) DEF BookInv, Types
<1>6. /\ p \in Passes /\ p.at = "arm" /\ p.makers = Read(s) /\ p.todo = sweep[r].todo
    BY <1>2, <1>5, PassFacts DEF Passes, Steps
<1>7. MakersOK(p)
  <2> SUFFICES ASSUME NEW k \in 1..Len(s)
               PROVE  /\ s[k] \in Existing /\ CopyOK(s[k], row[s[k]])
                      /\ Reached(s[k]) /\ s[k] \in crossed
      BY <1>5, <1>6 DEF MakersOK
  <2>1. s[k] \in stops /\ s[k] \in Existing /\ s[k] \in Orders
      BY <1>4, <1>5
  <2>2. OrderOK(s[k])
      BY <2>1 DEF BookInv
  <2>3. s[k] \in crossed
      BY <2>1 DEF Covered, Reaches, TriggerSatisfied
  <2> QED
      BY <2>1, <2>2, <2>3 DEF OrderOK, Reached
<1>8. TakerOK(p) /\ TodoOK(p) /\ StatusOK(p) /\ UnfilledOK(p)
    BY <1>6, PassFacts DEF TakerOK, TodoOK, StatusOK, UnfilledOK, Matching, Saving
<1> QED
    BY <1>3, <1>6, <1>7, <1>8, PassMoves DEF RowWritten, PassOK

LEMMA StopArmed ==
    ASSUME BookInv, NEW r \in Replicas, ArmStop(r)
    PROVE  BookInv'
<1> DEFINE m == sweep[r].makers[1]
           c == [m.copy EXCEPT !.status = "triggered", !.armed = TRUE]
<1>1. PICK p : p = [sweep[r] EXCEPT !.makers = Tail(sweep[r].makers)]
    OBVIOUS
<1>2. /\ sweep[r].makers \in Seq(Makers) /\ sweep[r].makers # <<>> /\ sweep[r].at = "arm"
    BY PassFacts DEF ArmStop
<1>3. /\ Head(sweep[r].makers) = m /\ m \in Makers /\ 1 \in 1..Len(sweep[r].makers)
      /\ Tail(sweep[r].makers) \in Seq(Makers)
      /\ \A k \in 1..Len(Tail(sweep[r].makers)) :
            /\ k + 1 \in 1..Len(sweep[r].makers)
            /\ Tail(sweep[r].makers)[k] = sweep[r].makers[k + 1]
    BY <1>2, HeadTail
<1>4. /\ sweep' = [sweep EXCEPT ![r] = p]
      /\ row' = [row EXCEPT ![m.order] = c]
      /\ UNCHANGED <<terms, lastPrice, cancelling, settled, crossed>>
    BY <1>1, <1>3 DEF ArmStop, history
<1>5. /\ m.order \in Existing /\ m.order \in Orders /\ m.order \in crossed
      /\ m.copy \in Rows /\ CopyOK(m.order, m.copy)
    BY <1>2, <1>3, PassFacts DEF MakersOK, Makers
<1>6. c \in Rows /\ c.status # "none" /\ c.filled = m.copy.filled
    BY <1>5 DEF Rows, Resting
<1>7. CopyOK(m.order, c)
    BY <1>5, <1>6 DEF CopyOK
<1>8. RowWritten
  <2> HIDE DEF c, m
  <2> QED
      BY <1>4, <1>5, <1>6, <1>7 DEF RowWritten
<1>9. /\ p \in Passes /\ p.at = "arm" /\ p.makers = Tail(sweep[r].makers)
      /\ p.todo = sweep[r].todo
    BY <1>1, <1>2, <1>3, PassFacts DEF Passes
<1>10. PassOK(p)
  <2>1. MakersOK(p)
      BY <1>2, <1>3, <1>9, PassFacts DEF MakersOK
  <2> QED
      BY <1>9, <2>1, PassFacts
      DEF PassOK, TakerOK, TodoOK, UnfilledOK, StatusOK, Matching, Saving
<1> QED
    BY <1>4, <1>8, <1>9, <1>10, PassMoves

LEMMA OrdersListed ==
    ASSUME BookInv, NEW r \in Replicas, ListOrders(r)
    PROVE  BookInv'
<1> DEFINE resting == {o \in Orders : row[o].status \in Resting}
<1>1. PICK s \in SetToSeqs(resting) :
         sweep' = [sweep EXCEPT ![r].at = "next", ![r].todo = s]
    BY DEF ListOrders, InOrder
<1>2. PICK p : p = [sweep[r] EXCEPT !.at = "next", !.todo = s]
    OBVIOUS
<1>3. /\ sweep' = [sweep EXCEPT ![r] = p]
      /\ UNCHANGED <<terms, lastPrice, cancelling, settled, crossed, row>>
      /\ sweep[r].makers = <<>>
    BY <1>1, <1>2 DEF ListOrders, history
<1>4. s \in Seq(Orders) /\ \A k \in 1..Len(s) : s[k] \in resting
  <2> HIDE DEF resting
  <2>1. resting \in SUBSET Orders
      BY DEF resting
  <2> QED
      BY <2>1, ReadRows, MarketAssumption DEF BookInv, Types
<1>5. /\ p \in Passes /\ p.at = "next" /\ p.makers = <<>> /\ p.todo = s
    BY <1>2, <1>3, <1>4, PassFacts DEF Passes, Steps
<1>6. TodoOK(p)
    BY <1>4, <1>5 DEF TodoOK, Existing, Resting
<1>7. TakerOK(p) /\ MakersOK(p) /\ StatusOK(p) /\ UnfilledOK(p)
    BY <1>5 DEF TakerOK, MakersOK, StatusOK, UnfilledOK, Matching, Saving
<1> QED
    BY <1>3, <1>5, <1>6, <1>7, PassMoves DEF RowWritten, PassOK

LEMMA SweepEnds ==
    ASSUME BookInv, NEW r \in Replicas, EndSweep(r) \/ Crash(r)
    PROVE  BookInv'
<1>1. /\ sweep' = [sweep EXCEPT ![r] = Idle]
      /\ UNCHANGED <<terms, lastPrice, cancelling, settled, crossed, row>>
    BY DEF EndSweep, Crash, history
<1> QED
    BY <1>1, NoPass, PassMoves DEF RowWritten

\* A step that leaves the order to be matched, after having saved its row or not.
LEMMA OrderLeft ==
    ASSUME BookInv, NEW r \in Replicas, sweep[r].todo # <<>>, NextOrder(r), RowWritten,
           UNCHANGED <<terms, lastPrice, cancelling, settled, crossed>>
    PROVE  BookInv'
<1>1. PICK p : p = [Idle EXCEPT !.at = "next", !.todo = Tail(sweep[r].todo)]
    OBVIOUS
<1>2. p \in Passes /\ PassOK(p)
    BY <1>1, NextPass
<1>3. sweep' = [sweep EXCEPT ![r] = p]
    BY <1>1 DEF NextOrder
<1> QED
    BY <1>2, <1>3, PassMoves

\* The row of the order to be matched is saved with another status.
LEMMA CopySaved ==
    ASSUME BookInv, NEW r \in Replicas, sweep[r].at \in Matching,
           NEW x \in Resting \cup Terminal,
           row' = [row EXCEPT ![sweep[r].order] = [sweep[r].copy EXCEPT !.status = x]]
    PROVE  RowWritten /\ sweep[r].todo # <<>>
<1>1. PICK c : c = [sweep[r].copy EXCEPT !.status = x]
    OBVIOUS
<1>2. /\ sweep[r].copy \in Rows /\ sweep[r].order \in Existing
      /\ CopyOK(sweep[r].order, sweep[r].copy) /\ sweep[r].todo # <<>>
    BY PassFacts DEF TakerOK
<1>3. /\ c \in Rows /\ c.status = x /\ c.filled = sweep[r].copy.filled
      /\ c.armed = sweep[r].copy.armed
    BY <1>1, <1>2 DEF Rows
<1>4. CopyOK(sweep[r].order, c) /\ c.status # "none"
    BY <1>2, <1>3 DEF CopyOK, Resting, Terminal
<1>5. row' = [row EXCEPT ![sweep[r].order] = c]
    BY <1>1
<1> QED
    BY <1>2, <1>3, <1>4, <1>5 DEF RowWritten

LEMMA OrderClosed ==
    ASSUME BookInv, NEW r \in Replicas, ExpireOrder(r) \/ KillOrder(r)
    PROVE  BookInv'
<1>1. PICK x \in Resting \cup Terminal :
         row' = [row EXCEPT ![sweep[r].order] = [sweep[r].copy EXCEPT !.status = x]]
    BY DEF ExpireOrder, KillOrder, Terminal
<1>2. sweep[r].at \in Matching
    BY DEF ExpireOrder, KillOrder, Matching
<1>3. NextOrder(r) /\ UNCHANGED <<terms, lastPrice, cancelling, settled, crossed>>
    BY DEF ExpireOrder, KillOrder, history
<1>4. RowWritten /\ sweep[r].todo # <<>>
    BY <1>1, <1>2, CopySaved
<1> QED
    BY <1>3, <1>4, OrderLeft

LEMMA OrderGivenUp ==
    ASSUME BookInv, NEW r \in Replicas, FillsDone(r) \/ MatchThrows(r) \/ QueryThrows(r)
    PROVE  BookInv'
<1>1. sweep[r].at \in Matching
    BY DEF FillsDone, MatchThrows, QueryThrows, Matching
<1>2. NextOrder(r) /\ UNCHANGED <<terms, lastPrice, cancelling, settled, crossed, row>>
    BY DEF FillsDone, MatchThrows, QueryThrows, history
<1>3. RowWritten /\ sweep[r].todo # <<>>
    BY <1>1, <1>2, PassFacts DEF RowWritten, TakerOK
<1> QED
    BY <1>2, <1>3, OrderLeft

LEMMA OrderTaken ==
    ASSUME BookInv, NEW r \in Replicas, MatchOrder(r)
    PROVE  BookInv'
<1> DEFINE o == Head(sweep[r].todo)
<1>1. /\ sweep[r].todo # <<>> /\ sweep[r].at = "next"
      /\ UNCHANGED <<terms, lastPrice, cancelling, settled, crossed, row>>
    BY DEF MatchOrder, history
<1>2. o \in Existing /\ o \in Orders
  <2>1. o = sweep[r].todo[1] /\ 1 \in 1..Len(sweep[r].todo) /\ o \in Orders
      BY <1>1, PassFacts, HeadTail
  <2> QED
      BY <2>1, PassFacts DEF TodoOK
<1>3. CASE row[o].status \in Terminal
    BY <1>1, <1>3, OrderLeft DEF MatchOrder, RowWritten
<1>4. CASE row[o].status \notin Terminal
  <2>1. PICK x \in {"expire", "stop", "find"} :
          /\ sweep' = [sweep EXCEPT ![r].order = o, ![r].copy = row[o], ![r].at = x]
          /\ x = "find" => terms[o].type # "stop_loss" \/ row[o].armed
          /\ x = "stop" => terms[o].type = "stop_loss"
      BY <1>4 DEF MatchOrder
  <2>2. PICK p : p = [sweep[r] EXCEPT !.order = o, !.copy = row[o], !.at = x]
      OBVIOUS
  <2>3. sweep' = [sweep EXCEPT ![r] = p]
      BY <2>1, <2>2
  <2>4. row[o] \in Rows /\ OrderOK(o) /\ row[o].status \in Resting
    <3>1. row[o] \in Rows /\ row[o].status # "none" /\ OrderOK(o)
        BY <1>2 DEF BookInv, Types, Existing
    <3> QED
        BY <1>4, <3>1 DEF Rows
  <2>5. /\ p.order = o /\ p.copy = row[o] /\ p.at = x /\ p.todo = sweep[r].todo
        /\ p.makers = sweep[r].makers /\ p \in Passes
    <3> HIDE DEF o
    <3>1. o \in 0..OrderCount /\ x \in Steps
        BY <1>2 DEF Orders, Steps, Matching
    <3> QED
        BY <2>2, <2>4, <3>1, PassFacts DEF Passes
  <2>6. TakerOK(p)
    <3> HIDE DEF o
    <3>1. CopyOK(o, row[o])
        BY <2>4 DEF OrderOK
    <3>2. x = "find" => Reached(o)
        BY <2>1, <3>1 DEF CopyOK, Reached
    <3> QED
        BY <1>1, <1>2, <2>1, <2>5, <3>1, <3>2 DEF TakerOK
  <2>7. MakersOK(p) /\ TodoOK(p)
      BY <2>5, PassFacts DEF MakersOK, TodoOK
  <2>8. UnfilledOK(p) /\ StatusOK(p)
      BY <2>4, <2>5 DEF UnfilledOK, StatusOK, Saving
  <2> QED
      BY <1>1, <2>3, <2>5, <2>6, <2>7, <2>8, PassMoves DEF PassOK, RowWritten
<1> QED
    BY <1>3, <1>4

LEMMA TriggerChecked ==
    ASSUME BookInv, NEW r \in Replicas, CheckTrigger(r)
    PROVE  BookInv'
<1> DEFINE o == sweep[r].order
           met == TriggerSatisfied(terms[o], lastPrice)
<1>1. /\ sweep[r].at = "stop" /\ sweep[r].at \in Matching
      /\ UNCHANGED <<terms, lastPrice, cancelling, settled, crossed, row>>
    BY DEF CheckTrigger, history, Matching
<1>2. /\ o \in Existing /\ o \in Orders /\ sweep[r].todo # <<>> /\ CopyOK(o, sweep[r].copy)
      /\ sweep[r].copy \in Rows /\ sweep[r].copy.status \in Resting
      /\ terms[o].type = "stop_loss"
    BY <1>1, PassFacts DEF TakerOK, Existing, StatusOK
<1>3. CASE ~met
    BY <1>1, <1>2, <1>3, OrderLeft DEF CheckTrigger, RowWritten
<1>4. CASE met
  <2>1. PICK p : p = [sweep[r] EXCEPT !.at = "trigger"]
      OBVIOUS
  <2>2. sweep' = [sweep EXCEPT ![r] = p]
      BY <1>4, <2>1 DEF CheckTrigger, Go
  <2>3. Reached(o)
    <3>1. OrderOK(o) /\ Reaches(terms[o], lastPrice)
        BY <1>2, <1>4 DEF BookInv, Reaches, TriggerSatisfied
    <3> QED
        BY <1>2, <3>1 DEF OrderOK, Reached
  <2>4. /\ p.order = o /\ p.copy = sweep[r].copy /\ p.at = "trigger"
        /\ p.todo = sweep[r].todo /\ p.makers = sweep[r].makers /\ p \in Passes
      BY <2>1, PassFacts DEF Passes, Steps, Matching
  <2>5. TakerOK(p)
    <3> HIDE DEF o
    <3> QED
        BY <1>2, <2>3, <2>4 DEF TakerOK
  <2>6. MakersOK(p) /\ TodoOK(p)
      BY <2>4, PassFacts DEF MakersOK, TodoOK
  <2>7. UnfilledOK(p) /\ StatusOK(p)
      BY <1>2, <2>4 DEF UnfilledOK, StatusOK, Saving
  <2> QED
      BY <1>1, <2>2, <2>4, <2>5, <2>6, <2>7, PassMoves DEF PassOK, RowWritten
<1> QED
    BY <1>3, <1>4

LEMMA StopTriggered ==
    ASSUME BookInv, NEW r \in Replicas, TriggerOrder(r)
    PROVE  BookInv'
<1> DEFINE o == sweep[r].order
<1>1. /\ sweep[r].at = "trigger" /\ sweep[r].at \in Matching
      /\ UNCHANGED <<terms, lastPrice, cancelling, settled, crossed>>
    BY DEF TriggerOrder, history, Matching
<1>2. /\ o \in Existing /\ sweep[r].todo # <<>> /\ CopyOK(o, sweep[r].copy)
      /\ sweep[r].copy \in Rows /\ Reached(o) /\ o \in crossed
    BY <1>1, PassFacts DEF TakerOK, Reached
<1>3. PICK c : c = [sweep[r].copy EXCEPT !.status = "triggered", !.armed = TRUE]
    OBVIOUS
<1>4. PICK p : p = [sweep[r] EXCEPT !.copy = c, !.at = "find"]
    OBVIOUS
<1>5. row' = [row EXCEPT ![o] = c] /\ sweep' = [sweep EXCEPT ![r] = p]
    BY <1>3, <1>4 DEF TriggerOrder
<1>6. c \in Rows /\ c.status = "triggered" /\ c.filled = sweep[r].copy.filled
    BY <1>2, <1>3 DEF Rows, Resting
<1>7. CopyOK(o, c)
    BY <1>2, <1>6 DEF CopyOK
<1>8. RowWritten
  <2> HIDE DEF o
  <2> QED
      BY <1>2, <1>5, <1>6, <1>7 DEF RowWritten
<1>9. /\ p.order = o /\ p.copy = c /\ p.at = "find" /\ p.todo = sweep[r].todo
      /\ p.makers = sweep[r].makers /\ p \in Passes
    BY <1>4, <1>6, PassFacts DEF Passes, Steps, Matching
<1>10. TakerOK(p)
  <2> HIDE DEF o
  <2> QED
      BY <1>2, <1>7, <1>9 DEF TakerOK
<1>11. MakersOK(p) /\ TodoOK(p)
    BY <1>9, PassFacts DEF MakersOK, TodoOK
<1>12. UnfilledOK(p) /\ StatusOK(p)
    BY <1>6, <1>9 DEF UnfilledOK, StatusOK, Saving, Resting
<1> QED
  <2> HIDE DEF o
  <2> QED
      BY <1>1, <1>5, <1>8, <1>9, <1>10, <1>11, <1>12, PassMoves DEF PassOK

LEMMA MakersFound ==
    ASSUME BookInv, NEW r \in Replicas, FindMakers(r)
    PROVE  BookInv'
<1> DEFINE o == sweep[r].order
           S == {m \in CrossingMakers(o) : terms[m].user # terms[o].user}
<1>1. PICK s \in SetToSeqs(S) : \E x \in {"kill", "fill"}, ms \in {<<>>, Read(s)} :
         sweep' = [sweep EXCEPT ![r].makers = ms, ![r].at = x]
    BY DEF FindMakers, FindCrossingMakers, InOrder
<1>2. S \in SUBSET Orders
    BY DEF CrossingMakers, Existing
<1>3. /\ Read(s) \in Seq(Makers) /\ Len(Read(s)) = Len(s)
      /\ \A k \in 1..Len(s) : /\ s[k] \in S
                              /\ Read(s)[k].order = s[k]
                              /\ Read(s)[k].copy = row[s[k]]
  <2> HIDE DEF S
  <2> QED
      BY <1>2, ReadRows, MarketAssumption, SMTT(30) DEF BookInv, Types
<1>4. PICK x \in {"kill", "fill"}, ms \in {<<>>, Read(s)} :
         sweep' = [sweep EXCEPT ![r].makers = ms, ![r].at = x]
    BY <1>1
<1>5. PICK p : p = [sweep[r] EXCEPT !.makers = ms, !.at = x]
    OBVIOUS
<1>6. /\ sweep' = [sweep EXCEPT ![r] = p] /\ sweep[r].at = "find"
      /\ UNCHANGED <<terms, lastPrice, cancelling, settled, crossed, row>>
    BY <1>4, <1>5 DEF FindMakers, history
<1>7. \A m \in S : /\ m \in Existing /\ CopyOK(m, row[m]) /\ Reached(m)
                   /\ row[m].filled < terms[m].amount
  <2> SUFFICES ASSUME NEW m \in S
               PROVE  /\ m \in Existing /\ CopyOK(m, row[m]) /\ Reached(m)
                      /\ row[m].filled < terms[m].amount
      OBVIOUS
  <2>1. /\ m \in Existing /\ m \in Orders /\ row[m].filled < terms[m].amount
        /\ terms[m].type # "stop_loss" \/ row[m].armed
      BY <1>2 DEF CrossingMakers
  <2>2. CopyOK(m, row[m])
      BY <2>1 DEF BookInv, OrderOK
  <2> QED
      BY <2>1, <2>2 DEF CopyOK, Reached
<1>8. ms \in Seq(Makers)
  <2>1. <<>> \in Seq(Makers)
      OBVIOUS
  <2> QED
      BY <1>3, <2>1
<1>9. \A k \in 1..Len(ms) :
         /\ ms[k].order \in Existing /\ CopyOK(ms[k].order, ms[k].copy)
         /\ Reached(ms[k].order) /\ ms[k].copy.filled < terms[ms[k].order].amount
  <2> HIDE DEF S
  <2> QED
      BY <1>3, <1>7
<1>10. /\ p.order = o /\ p.copy = sweep[r].copy /\ p.at = x /\ p.todo = sweep[r].todo
      /\ p.makers = ms /\ p \in Passes
  <2>1. x \in Steps
      BY DEF Steps, Matching
  <2> QED
      BY <1>5, <1>8, <2>1, PassFacts DEF Passes
<1>11. TakerOK(p) /\ StatusOK(p)
    BY <1>6, <1>10, PassFacts DEF TakerOK, StatusOK, Matching, Saving
<1>12. MakersOK(p) /\ UnfilledOK(p)
    BY <1>9, <1>10 DEF MakersOK, UnfilledOK
<1>13. TodoOK(p)
    BY <1>10, PassFacts DEF TodoOK
<1> QED
  <2> HIDE DEF o, S
  <2> QED
      BY <1>6, <1>10, <1>11, <1>12, <1>13, PassMoves DEF PassOK, RowWritten

LEMMA TakerSaved ==
    ASSUME BookInv, NEW r \in Replicas, SaveTaker(r)
    PROVE  BookInv'
<1>1. PICK p : p = [sweep[r] EXCEPT !.at = "maker"]
    OBVIOUS
<1>2. /\ sweep' = [sweep EXCEPT ![r] = p] /\ sweep[r].at = "taker"
      /\ row' = [row EXCEPT ![sweep[r].order] = sweep[r].copy]
      /\ UNCHANGED <<terms, lastPrice, cancelling, settled, crossed>>
    BY <1>1 DEF SaveTaker, Go, history
<1>3. /\ sweep[r].order \in Existing /\ sweep[r].copy \in Rows
      /\ CopyOK(sweep[r].order, sweep[r].copy) /\ sweep[r].copy.status # "none"
    BY <1>2, PassFacts DEF TakerOK, StatusOK, Matching, Saving, FillStatuses
<1>4. RowWritten
    BY <1>2, <1>3 DEF RowWritten
<1>5. /\ p.order = sweep[r].order /\ p.copy = sweep[r].copy /\ p.at = "maker"
      /\ p.todo = sweep[r].todo /\ p.makers = sweep[r].makers /\ p \in Passes
    BY <1>1, PassFacts DEF Passes, Steps, Matching
<1>6. TakerOK(p) /\ StatusOK(p)
    BY <1>2, <1>5, PassFacts DEF TakerOK, StatusOK, Matching, Saving
<1>7. MakersOK(p) /\ UnfilledOK(p) /\ TodoOK(p)
    BY <1>2, <1>5, PassFacts DEF MakersOK, UnfilledOK, TodoOK, Saving
<1> QED
    BY <1>2, <1>4, <1>5, <1>6, <1>7, PassMoves DEF PassOK

LEMMA MakerSaved ==
    ASSUME BookInv, NEW r \in Replicas, SaveMaker(r)
    PROVE  BookInv'
<1> DEFINE m == sweep[r].makers[1]
<1>1. PICK p : p = [sweep[r] EXCEPT !.at = "fill", !.makers = Tail(sweep[r].makers)]
    OBVIOUS
<1>2. /\ sweep[r].makers \in Seq(Makers) /\ sweep[r].makers # <<>>
      /\ sweep[r].at = "maker"
    BY PassFacts DEF SaveMaker, StatusOK, Saving
<1>3. /\ Head(sweep[r].makers) = m /\ m \in Makers /\ 1 \in 1..Len(sweep[r].makers)
      /\ Tail(sweep[r].makers) \in Seq(Makers)
      /\ \A k \in 1..Len(Tail(sweep[r].makers)) :
            /\ k + 1 \in 1..Len(sweep[r].makers) /\ k + 1 # 1
            /\ Tail(sweep[r].makers)[k] = sweep[r].makers[k + 1]
    BY <1>2, HeadTail
<1>4. /\ sweep' = [sweep EXCEPT ![r] = p]
      /\ row' = [row EXCEPT ![m.order] = m.copy]
      /\ UNCHANGED <<terms, lastPrice, cancelling, settled, crossed>>
    BY <1>1, <1>3 DEF SaveMaker, history
<1>5. /\ m.order \in Existing /\ m.copy \in Rows /\ CopyOK(m.order, m.copy)
      /\ m.copy.status # "none"
    BY <1>2, <1>3, PassFacts DEF MakersOK, Makers, StatusOK, Saving, FillStatuses
<1>6. RowWritten
  <2> HIDE DEF m
  <2> QED
      BY <1>4, <1>5 DEF RowWritten
<1>7. /\ p \in Passes /\ p.at = "fill" /\ p.makers = Tail(sweep[r].makers)
      /\ p.todo = sweep[r].todo /\ p.order = sweep[r].order /\ p.copy = sweep[r].copy
    BY <1>1, <1>2, <1>3, PassFacts DEF Passes, Steps, Matching
<1>8. MakersOK(p) /\ UnfilledOK(p)
  <2>1. MakersOK(p)
      BY <1>2, <1>3, <1>7, PassFacts DEF MakersOK
  <2>2. UnfilledOK(p)
      BY <1>2, <1>3, <1>7, PassFacts DEF UnfilledOK, Saving
  <2> QED
      BY <2>1, <2>2
<1>9. TakerOK(p) /\ TodoOK(p)
    BY <1>2, <1>7, PassFacts DEF TakerOK, TodoOK, Matching
<1>10. StatusOK(p)
    BY <1>2, <1>7, PassFacts DEF StatusOK, Saving
<1> QED
  <2> HIDE DEF m
  <2> QED
      BY <1>4, <1>6, <1>7, <1>8, <1>9, <1>10, PassMoves DEF PassOK

-----------------------------------------------------------------------------
(* Settlement. *)

\* The size of an order.
LEMMA Sizes ==
    ASSUME BookInv, NEW o \in Existing
    PROVE  o \in Orders /\ terms[o].amount \in Nat \ {0} /\ settled[o] \in Nat
<1>1. o \in Orders /\ OrderOK(o) /\ settled[o] \in Nat
    BY DEF Existing, BookInv, Types
<1>2. terms[o] \in TermsOf[o]
    BY <1>1 DEF OrderOK
<1> QED
    BY <1>1, <1>2, MarketAssumption

\* The row after a fill.
LEMMA FilledRow ==
    ASSUME NEW o, terms[o].amount \in Nat, NEW c \in Rows, NEW a \in Nat
    PROVE  /\ Filled(o, c, a) \in Rows
           /\ Filled(o, c, a).filled = c.filled + a
           /\ Filled(o, c, a).armed = c.armed
           /\ Filled(o, c, a).status \in FillStatuses
           /\ \/ Filled(o, c, a).status \in Resting
              \/ Filled(o, c, a).filled >= terms[o].amount
<1>1. PICK x \in FillStatuses :
         /\ x = IF c.filled + a >= terms[o].amount THEN "filled" ELSE "partially_filled"
         /\ x \in Resting \/ c.filled + a >= terms[o].amount
         /\ x \in Resting \cup Terminal
    BY DEF FillStatuses, Resting, Terminal
<1>2. c.filled \in Nat /\ c.filled + a \in Nat
    BY DEF Rows
<1>3. PICK d : d = [c EXCEPT !.filled = c.filled + a, !.status = x]
    OBVIOUS
<1>4. Filled(o, c, a) = d
    BY <1>1, <1>3 DEF Filled
<1>5. d \in Rows /\ d.filled = c.filled + a /\ d.armed = c.armed /\ d.status = x
    BY <1>1, <1>2, <1>3 DEF Rows
<1> QED
    BY <1>1, <1>4, <1>5

\* What a sweep about to fill may rely on.
LEMMA FillFacts ==
    ASSUME BookInv, NEW r \in Replicas, Filling(r)
    PROVE  LET s == sweep[r]
               m == s.makers[1]
           IN  /\ s.at = "fill" /\ s.makers # <<>> /\ Head(s.makers) = m /\ m \in Makers
               /\ {s.order, m.order} \subseteq Existing
               /\ s.order \in Orders /\ m.order \in Orders
               /\ Reached(s.order) /\ Reached(m.order)
               /\ CopyOK(s.order, s.copy) /\ CopyOK(m.order, m.copy)
               /\ s.copy \in Rows /\ m.copy \in Rows /\ s.todo # <<>>
               /\ FillAmount(r) \in Nat \ {0}
               /\ s.copy.filled + FillAmount(r) <= terms[s.order].amount
               /\ m.copy.filled + FillAmount(r) <= terms[m.order].amount
<1> DEFINE s == sweep[r]
           m == s.makers[1]
<1>1. s.at = "fill" /\ s.makers # <<>> /\ Open(s.order, s.copy) > 0
    BY DEF Filling
<1>2. s.makers \in Seq(Makers) /\ s.copy \in Rows
    BY PassFacts
<1>3. Head(s.makers) = m /\ m \in Makers /\ 1 \in 1..Len(s.makers)
    BY <1>1, <1>2, HeadTail
<1>4. m.order \in Orders /\ m.copy \in Rows
    BY <1>3 DEF Makers
<1>5. /\ m.order \in Existing /\ CopyOK(m.order, m.copy) /\ Reached(m.order)
      /\ m.copy.filled < terms[m.order].amount
    BY <1>1, <1>3, PassFacts DEF MakersOK, UnfilledOK
<1>6. s.order \in Existing /\ CopyOK(s.order, s.copy) /\ Reached(s.order) /\ s.todo # <<>>
    BY <1>1, PassFacts DEF TakerOK, Matching
<1>7. /\ terms[s.order].amount \in Nat /\ terms[m.order].amount \in Nat
      /\ s.copy.filled \in Nat /\ m.copy.filled \in Nat /\ s.order \in Orders
    BY <1>2, <1>4, <1>5, <1>6, Sizes DEF Rows
<1>8. /\ FillAmount(r) = IF Open(s.order, s.copy) < Open(m.order, m.copy)
                           THEN Open(s.order, s.copy) ELSE Open(m.order, m.copy)
    BY <1>3 DEF FillAmount
<1>9. /\ FillAmount(r) \in Nat \ {0}
      /\ s.copy.filled + FillAmount(r) <= terms[s.order].amount
      /\ m.copy.filled + FillAmount(r) <= terms[m.order].amount
  <2>1. PICK A \in Nat, B \in Nat, c \in Nat, d \in Nat :
          A = terms[s.order].amount /\ B = terms[m.order].amount
          /\ c = s.copy.filled /\ d = m.copy.filled
      BY <1>7
  <2>2. /\ A - c > 0 /\ B - d > 0
        /\ FillAmount(r) = IF A - c < B - d THEN A - c ELSE B - d
      BY <1>1, <1>5, <1>8, <2>1 DEF Open
  <2>3. FillAmount(r) \in Nat \ {0} /\ c + FillAmount(r) <= A /\ d + FillAmount(r) <= B
      BY <2>2
  <2> QED
      BY <2>1, <2>3
<1> QED
    BY <1>1, <1>2, <1>3, <1>4, <1>5, <1>6, <1>7, <1>9

\* A settlement adds the amount of the fill to both orders.
LEMMA Settles ==
    ASSUME BookInv, NEW r \in Replicas, Filling(r), Settle(r)
    PROVE  LET o == sweep[r].order
               m == sweep[r].makers[1].order
               a == FillAmount(r)
           IN  /\ settled' \in [Orders -> Nat]
               /\ \A n \in Orders : settled[n] <= settled'[n]
               /\ \A n \in Orders : n # o /\ n # m => settled'[n] = settled[n]
               /\ settled'[o] = settled[o] + a /\ settled'[m] = settled[m] + a
<1>1. PICK o \in Orders, m \in Orders, a \in Nat :
         /\ o = sweep[r].order /\ m = sweep[r].makers[1].order /\ a = FillAmount(r)
         /\ Head(sweep[r].makers).order = m
    BY FillFacts
<1>2. settled \in [Orders -> Nat]
    BY DEF BookInv, Types
<1>3. settled' = [n \in Orders |-> settled[n] + (IF n \in {o, m} THEN a ELSE 0)]
    BY <1>1 DEF Settle
<1>4. \A n \in Orders : settled'[n] = IF n \in {o, m} THEN settled[n] + a ELSE settled[n] + 0
    BY <1>3
<1>5. \A n \in Orders : settled[n] \in Nat
    BY <1>2
<1>6. \A n \in Orders : settled'[n] \in Nat /\ settled[n] <= settled'[n]
    BY <1>4, <1>5
<1>7. settled' \in [Orders -> Nat]
    BY <1>2, <1>3, <1>6
<1>8. settled'[o] = settled[o] + a /\ settled'[m] = settled[m] + a
    BY <1>4
<1>9. \A n \in Orders : n # o /\ n # m => settled'[n] = settled[n]
    BY <1>4, <1>5
<1> QED
    BY <1>1, <1>6, <1>7, <1>8, <1>9

\* The part of BookInv about the orders, after a step that settles something or
\* moves the price.
LEMMA OrdersGrow ==
    ASSUME BookInv, UNCHANGED <<terms, row, cancelling>>,
           settled' \in [Orders -> Nat],
           \A n \in Orders : settled[n] <= settled'[n],
           crossed \subseteq crossed',
           \A n \in Orders \ Existing : settled'[n] = settled[n],
           \A n \in Existing :
              /\ settled'[n] > 0 => settled[n] > 0 \/ Reached(n)
              /\ Reaches(terms[n], lastPrice') => n \in crossed'
    PROVE  Grows /\ \A n \in Orders : OrderOK(n)'
<1>1. Types /\ \A n \in Orders : OrderOK(n)
    BY DEF BookInv
<1>2. Existing' = Existing
    BY DEF Existing
<1>3. Grows
    BY <1>2 DEF Grows
<1>4. ASSUME NEW n \in Orders PROVE OrderOK(n)'
  <2>1. CopyOK(n, row[n]) /\ CopyOK(n, cancelling[n]) /\ row[n] \in Rows /\ cancelling[n] \in Rows
      BY <1>1 DEF OrderOK, Types
  <2>2. row[n].filled \in Nat /\ cancelling[n].filled \in Nat /\ settled[n] \in Nat /\ settled'[n] \in Nat
      BY <1>1, <2>1 DEF Types, Rows
  <2>3. row[n].filled <= settled'[n] /\ cancelling[n].filled <= settled'[n]
      BY <2>1, <2>2 DEF CopyOK
  <2>4. CopyOK(n, row[n])' /\ CopyOK(n, cancelling[n])'
      BY <2>1, <2>3 DEF CopyOK
  <2>5. ASSUME n \in Existing
        PROVE  /\ terms[n] \in TermsOf[n]
               /\ Reaches(terms[n], lastPrice') => n \in crossed'
               /\ settled'[n] > 0 => Reached(n)'
      BY <1>1, <2>5 DEF OrderOK, Reached
  <2> QED
      BY <1>1, <1>2, <2>4, <2>5 DEF OrderOK, Reaches
<1> QED
    BY <1>3, <1>4

\* The part of BookInv about the sweeps, when at most one of them moves.
LEMMA SweepsStay ==
    ASSUME BookInv, Types', Grows, \A n \in Orders : OrderOK(n)',
           NEW r, NEW p, p \in Passes => PassOK(p)',
           sweep' = sweep \/ sweep' = [sweep EXCEPT ![r] = p]
    PROVE  BookInv'
<1>1. ASSUME NEW q \in Replicas PROVE PassOK(sweep[q])'
  <2>1. sweep[q] \in Passes /\ PassOK(sweep[q]) /\ sweep'[q] \in Passes
      BY DEF BookInv, Types
  <2>2. PICK s \in Passes : s = sweep[q]
      BY <2>1
  <2>3. PassOK(s)'
      BY <2>1, <2>2, PassStays DEF BookInv
  <2>4. sweep'[q] = s \/ sweep'[q] = p
      BY <2>2 DEF BookInv, Types
  <2>5. CASE sweep'[q] = s
      BY <2>3, <2>5
  <2>6. CASE sweep'[q] = p
      BY <2>1, <2>6
  <2> QED
      BY <2>4, <2>5, <2>6
<1> QED
    BY <1>1 DEF BookInv

LEMMA FillThrown ==
    ASSUME BookInv, NEW r \in Replicas, FillThrows(r)
    PROVE  BookInv'
<1>1. /\ Filling(r) /\ NextOrder(r)
      /\ UNCHANGED <<terms, row, lastPrice, cancelling, crossed>>
      /\ UNCHANGED settled \/ Settle(r)
    BY DEF FillThrows
<1>2. CASE UNCHANGED settled
    BY <1>1, <1>2, FillFacts, OrderLeft DEF RowWritten
<1>3. CASE Settle(r)
  <2>1. PICK p : p = [Idle EXCEPT !.at = "next", !.todo = Tail(sweep[r].todo)]
      OBVIOUS
  <2>2. p \in Passes /\ PassOK(p)
      BY <1>1, <2>1, FillFacts, NextPass
  <2>3. sweep' = [sweep EXCEPT ![r] = p]
      BY <1>1, <2>1 DEF NextOrder
  <2>4. /\ settled' \in [Orders -> Nat]
        /\ \A n \in Orders : settled[n] <= settled'[n]
        /\ \A n \in Orders :
              n # sweep[r].order /\ n # sweep[r].makers[1].order => settled'[n] = settled[n]
      BY <1>1, <1>3, Settles
  <2>5. /\ sweep[r].order \in Existing /\ sweep[r].makers[1].order \in Existing
        /\ Reached(sweep[r].order) /\ Reached(sweep[r].makers[1].order)
      BY <1>1, FillFacts
  <2>6. ASSUME NEW n \in Existing
        PROVE  /\ settled'[n] > 0 => settled[n] > 0 \/ Reached(n)
               /\ Reaches(terms[n], lastPrice') => n \in crossed'
    <3>1. n \in Orders /\ OrderOK(n)
        BY DEF Existing, BookInv
    <3>2. settled'[n] = settled[n] \/ Reached(n)
        BY <2>4, <2>5, <3>1
    <3> QED
        BY <1>1, <3>1, <3>2 DEF OrderOK
  <2>7. Grows /\ \A n \in Orders : OrderOK(n)'
      BY <1>1, <2>4, <2>5, <2>6, OrdersGrow
  <2>8. Types'
      BY <1>1, <2>2, <2>3, <2>4 DEF BookInv, Types
  <2>9. PassOK(p)'
      BY <2>2, <2>7, <2>8, PassStays DEF BookInv
  <2> QED
      BY <2>3, <2>7, <2>8, <2>9, SweepsStay
<1> QED
    BY <1>1, <1>2, <1>3

\* The price of a trade reaches every stop on its way.
LEMMA PriceMoves ==
    ASSUME NEW price, Market(price)
    PROVE  /\ crossed \subseteq crossed'
           /\ \A n \in Existing : Reaches(terms[n], lastPrice') => n \in crossed'
BY DEF Market, Reaches

\* The price of a fill is the maker's.
LEMMA FillPrice ==
    ASSUME BookInv, NEW r \in Replicas, RecordFill(r)
    PROVE  \E price \in Nat : Market(price)
<1>1. Filling(r) /\ Market(terms[Head(sweep[r].makers).order].price)
    BY DEF RecordFill
<1>2. PICK m \in Existing : m = Head(sweep[r].makers).order
    BY <1>1, FillFacts
<1>3. m \in Orders /\ terms[m] \in TermsOf[m]
    BY DEF BookInv, OrderOK, Existing
<1>4. terms[m].price \in Nat
    BY <1>3, MarketAssumption
<1> QED
    BY <1>1, <1>2, <1>4

\* The record p of a sweep after a fill, from the record s before it.
Advanced(s, p, a) ==
    LET m == s.makers[1]
        n == p.makers[1]
    IN  /\ p.at = "taker" /\ p.order = s.order /\ p.todo = s.todo
        /\ p.copy.filled = s.copy.filled + a /\ p.copy.armed = s.copy.armed
        /\ p.copy.status \in FillStatuses
        /\ p.copy.status \in Resting \/ p.copy.filled >= terms[s.order].amount
        /\ p.makers # <<>> /\ Len(p.makers) = Len(s.makers)
        /\ n.order = m.order /\ n.copy.filled = m.copy.filled + a
        /\ n.copy.armed = m.copy.armed /\ n.copy.status \in FillStatuses
        /\ \A k \in 1..Len(s.makers) : k # 1 => p.makers[k] = s.makers[k]

LEMMA FillTaken ==
    ASSUME BookInv, NEW r \in Replicas, Filling(r), Take(r, FillAmount(r))
    PROVE  \E p \in Passes : /\ sweep' = [sweep EXCEPT ![r] = p]
                             /\ Advanced(sweep[r], p, FillAmount(r))
<1>1. PICK s, a, c, d :
         /\ s = sweep[r] /\ a = FillAmount(r) /\ c = Filled(s.order, s.copy, a)
         /\ d = Filled(s.makers[1].order, s.makers[1].copy, a)
    OBVIOUS
<1> DEFINE o == s.order
           m == s.makers[1]
           rest == <<[m EXCEPT !.copy = d]>> \o Tail(s.makers)
<1>2. /\ s.makers # <<>> /\ Head(s.makers) = m /\ m \in Makers
      /\ o \in Existing /\ m.order \in Existing
      /\ s.copy \in Rows /\ m.copy \in Rows /\ a \in Nat
    BY <1>1, FillFacts
<1>3. /\ c \in Rows /\ c.filled = s.copy.filled + a /\ c.armed = s.copy.armed
      /\ c.status \in FillStatuses
      /\ c.status \in Resting \/ c.filled >= terms[o].amount
  <2>1. terms[o].amount \in Nat /\ c = Filled(o, s.copy, a)
      BY <1>1, <1>2, Sizes
  <2> HIDE DEF o
  <2> QED
      BY <1>2, <2>1, FilledRow
<1>4. /\ d \in Rows /\ d.filled = m.copy.filled + a /\ d.armed = m.copy.armed
      /\ d.status \in FillStatuses
  <2>1. PICK n : n = m.order
      OBVIOUS
  <2>2. terms[n].amount \in Nat /\ d = Filled(n, m.copy, a)
      BY <1>1, <1>2, <2>1, Sizes
  <2> HIDE DEF m
  <2> QED
      BY <1>2, <2>2, FilledRow
<1>5. PICK p : p = [s EXCEPT !.at = "taker", !.copy = c, !.makers = rest]
    OBVIOUS
<1>6. sweep' = [sweep EXCEPT ![r] = p]
    BY <1>1, <1>2, <1>5 DEF Take
<1>7. PICK e : e = [m EXCEPT !.copy = d]
    OBVIOUS
<1>8. e \in Makers /\ e.order = m.order /\ e.copy = d
    BY <1>2, <1>4, <1>7 DEF Makers
<1>9. /\ rest \in Seq(Makers) /\ Len(rest) = Len(s.makers) /\ rest # <<>>
      /\ rest[1] = e
      /\ \A k \in 1..Len(s.makers) : k # 1 => rest[k] = s.makers[k]
  <2>1. s.makers \in Seq(Makers)
      BY <1>1, PassFacts
  <2>2. rest = <<e>> \o Tail(s.makers)
      BY <1>7
  <2> HIDE DEF rest
  <2> QED
      BY <1>2, <1>8, <2>1, <2>2, NewHead
<1> HIDE DEF rest
<1>10. /\ p \in Passes /\ p.at = "taker" /\ p.copy = c /\ p.makers = rest
       /\ p.order = o /\ p.todo = s.todo
    BY <1>1, <1>3, <1>5, <1>9, PassFacts DEF Passes, Steps, Matching
<1>11. Advanced(s, p, a)
    BY <1>3, <1>4, <1>8, <1>9, <1>10 DEF Advanced
<1> QED
    BY <1>1, <1>6, <1>10, <1>11

LEMMA FillRecorded ==
    ASSUME BookInv, NEW r \in Replicas, RecordFill(r)
    PROVE  BookInv'
<1>1. /\ Filling(r) /\ Settle(r) /\ UNCHANGED <<terms, row, cancelling>>
      /\ \E price \in Nat : Market(price)
    BY FillPrice DEF RecordFill
<1>2. PICK s, a : s = sweep[r] /\ a = FillAmount(r)
    OBVIOUS
<1>3. PICK p \in Passes : sweep' = [sweep EXCEPT ![r] = p] /\ Advanced(s, p, a)
    BY <1>1, <1>2, FillTaken DEF RecordFill
<1> DEFINE o == s.order
           m == s.makers[1]
<1>4. /\ s.at = "fill" /\ s.makers # <<>>
      /\ o \in Existing /\ m.order \in Existing /\ o \in Orders /\ m.order \in Orders
      /\ Reached(o) /\ Reached(m.order)
      /\ CopyOK(o, s.copy) /\ CopyOK(m.order, m.copy)
      /\ s.copy \in Rows /\ m.copy \in Rows /\ s.todo # <<>> /\ a \in Nat
    BY <1>1, <1>2, FillFacts
<1>5. /\ settled' \in [Orders -> Nat]
      /\ \A n \in Orders : settled[n] <= settled'[n]
      /\ \A n \in Orders : n # o /\ n # m.order => settled'[n] = settled[n]
      /\ settled'[o] = settled[o] + a /\ settled'[m.order] = settled[m.order] + a
    BY <1>1, <1>2, Settles
<1>6. /\ crossed \subseteq crossed'
      /\ \A n \in Existing : Reaches(terms[n], lastPrice') => n \in crossed'
      /\ lastPrice' \in Nat
    BY <1>1, PriceMoves DEF Market
<1>7. ASSUME NEW n \in Existing
      PROVE  settled'[n] > 0 => settled[n] > 0 \/ Reached(n)
  <2>1. n \in Orders
      BY DEF Existing
  <2> QED
      BY <1>4, <1>5, <2>1
<1>8. Grows /\ \A n \in Orders : OrderOK(n)'
    BY <1>1, <1>4, <1>5, <1>6, <1>7, OrdersGrow
<1>9. CopyOK(o, p.copy)' /\ CopyOK(m.order, p.makers[1].copy)'
  <2>1. ASSUME NEW x \in Nat, NEW y \in Nat, NEW z \in Nat, x <= y PROVE x + z <= y + z
      BY <2>1
  <2>2. /\ s.copy.filled \in Nat /\ m.copy.filled \in Nat
        /\ settled[o] \in Nat /\ settled[m.order] \in Nat
        /\ s.copy.filled <= settled[o] /\ m.copy.filled <= settled[m.order]
      BY <1>4 DEF CopyOK, Rows, BookInv, Types
  <2>3. s.copy.filled + a <= settled[o] + a /\ m.copy.filled + a <= settled[m.order] + a
    <3> HIDE DEF o, m
    <3> QED
        BY <1>4, <2>1, <2>2
  <2>4. /\ p.copy.filled = s.copy.filled + a /\ p.copy.armed = s.copy.armed
        /\ p.makers[1].copy.filled = m.copy.filled + a
        /\ p.makers[1].copy.armed = m.copy.armed
      BY <1>3 DEF Advanced
  <2>5. p.copy.filled <= settled'[o] /\ p.makers[1].copy.filled <= settled'[m.order]
    <3> HIDE DEF o, m
    <3> QED
        BY <1>5, <2>3, <2>4
  <2> QED
      BY <1>4, <1>6, <2>4, <2>5 DEF CopyOK
<1>10. Types'
    BY <1>1, <1>3, <1>5, <1>6 DEF BookInv, Types
<1>11. PassOK(s)'
  <2>1. s \in Passes /\ PassOK(s)
      BY <1>2 DEF BookInv, Types
  <2> QED
      BY <1>8, <1>10, <2>1, PassStays DEF BookInv
<1>12. o \in Existing' /\ Reached(o)' /\ m.order \in Existing' /\ Reached(m.order)'
    BY <1>1, <1>4, <1>6 DEF Existing, Reached
<1>13. TakerOK(p)'
    BY <1>3, <1>4, <1>9, <1>12 DEF TakerOK, Advanced
<1>14. MakersOK(p)'
  <2> SUFFICES ASSUME NEW k \in 1..Len(p.makers)
               PROVE  /\ p.makers[k].order \in Existing'
                      /\ CopyOK(p.makers[k].order, p.makers[k].copy)'
                      /\ Reached(p.makers[k].order)'
      BY <1>3 DEF MakersOK, Advanced
  <2>1. CASE k = 1
      BY <1>3, <1>9, <1>12, <2>1 DEF Advanced
  <2>2. CASE k # 1
      BY <1>3, <1>11, <2>2 DEF PassOK, MakersOK, Advanced
  <2> QED
      BY <2>1, <2>2
<1>15. TodoOK(p)'
    BY <1>3, <1>11 DEF PassOK, TodoOK, Advanced
<1>16. UnfilledOK(p)'
    BY <1>3, <1>4, <1>11 DEF PassOK, UnfilledOK, Advanced
<1>17. StatusOK(p)'
    BY <1>1, <1>3 DEF StatusOK, Saving, Advanced
<1> QED
    BY <1>3, <1>8, <1>10, <1>13, <1>14, <1>15, <1>16, <1>17, SweepsStay DEF PassOK

LEMMA DirectlyTraded ==
    ASSUME BookInv, NEW price \in Prices, DirectTrade(price)
    PROVE  BookInv'
<1>1. /\ UNCHANGED <<terms, row, sweep, cancelling, settled>>
      /\ Market(price)
    BY DEF DirectTrade
<1>2. settled' \in [Orders -> Nat] /\ \A n \in Orders : settled[n] \in Nat
    BY <1>1 DEF BookInv, Types
<1>3. \A n \in Orders : settled[n] <= settled'[n]
    BY <1>1, <1>2
<1>4. Grows /\ \A n \in Orders : OrderOK(n)'
    BY <1>1, <1>2, <1>3, PriceMoves, OrdersGrow
<1>5. Types'
    BY <1>1, MarketAssumption DEF BookInv, Types, Market
<1> QED
  <2>1. PICK p : p \notin Passes
      BY NoSetContainsEverything
  <2> QED
      BY <1>1, <1>4, <1>5, <2>1, SweepsStay

-----------------------------------------------------------------------------
(* The users. *)

\* An order that has been saved has its terms.
LEMMA SavedTerms ==
    ASSUME BookInv, NEW o \in Orders, terms[o] = NoTerms
    PROVE  o \notin Existing
<1>1. NoTerms.type = "none"
    BY DEF NoTerms
<1>2. \A t \in TermsOf[o] : t.type # "none"
    BY MarketAssumption
<1> QED
    BY <1>1, <1>2 DEF BookInv, OrderOK

LEMMA OrderChecked ==
    ASSUME BookInv, NEW o \in Orders, NEW t \in TermsOf[o], CheckOrder(o, t)
    PROVE  BookInv'
<1>1. /\ o \notin Existing /\ terms' = [terms EXCEPT ![o] = t]
      /\ UNCHANGED <<row, lastPrice, sweep, cancelling, settled, crossed>>
    BY SavedTerms DEF CheckOrder, history
<1>2. Types /\ \A n \in Orders : OrderOK(n)
    BY DEF BookInv
<1>3. Types' /\ Existing' = Existing
    BY <1>1, <1>2 DEF Types, AllTerms, Existing
<1>4. \A n \in Orders : n # o => terms'[n] = terms[n]
    BY <1>1, <1>2 DEF Types
<1>5. Grows
  <2>1. \A n \in Orders : settled[n] \in Nat
      BY <1>2 DEF Types
  <2>2. \A n \in Orders : settled[n] <= settled'[n]
      BY <1>1, <2>1
  <2>3. \A n \in Existing : n \in Orders /\ n # o
      BY <1>1 DEF Existing
  <2> QED
      BY <1>1, <1>3, <1>4, <2>2, <2>3 DEF Grows
<1>6. ASSUME NEW n \in Orders PROVE OrderOK(n)'
  <2>1. CopyOK(n, row[n])' /\ CopyOK(n, cancelling[n])'
      BY <1>1, <1>2 DEF OrderOK, CopyOK
  <2>2. CASE n = o
    <3>1. terms'[n] \in TermsOf[n]
        BY <1>1, <1>2, <2>2 DEF Types
    <3> QED
        BY <1>1, <1>2, <1>3, <2>1, <2>2, <3>1 DEF OrderOK
  <2>3. CASE n # o
      BY <1>1, <1>2, <1>3, <1>4, <2>1, <2>3 DEF OrderOK, Reached, Reaches
  <2> QED
      BY <2>2, <2>3
<1> QED
  <2>1. PICK p : p \notin Passes
      BY NoSetContainsEverything
  <2> QED
      BY <1>1, <1>3, <1>5, <1>6, <2>1, SweepsStay

LEMMA OrderSaved ==
    ASSUME BookInv, NEW o \in Orders, SaveOrder(o)
    PROVE  BookInv'
<1>1. /\ o \notin Existing /\ terms[o] # NoTerms
      /\ row' = [row EXCEPT ![o].status = "open"]
      /\ crossed \subseteq crossed'
      /\ Reaches(terms[o], lastPrice) => o \in crossed'
      /\ UNCHANGED <<terms, lastPrice, sweep, cancelling, settled>>
    BY DEF SaveOrder
<1>2. Types /\ \A n \in Orders : OrderOK(n)
    BY DEF BookInv
<1>3. /\ row[o] = NoRow /\ settled[o] = 0 /\ cancelling[o] = NoRow
      /\ terms[o] \in TermsOf[o]
    BY <1>1, <1>2 DEF OrderOK
<1>4. PICK c : c = [NoRow EXCEPT !.status = "open"]
    OBVIOUS
<1>5. row' = [row EXCEPT ![o] = c]
    BY <1>1, <1>3, <1>4
<1>6. c \in Rows /\ c.status = "open" /\ c.filled = 0 /\ c.armed = FALSE
    BY <1>4 DEF NoRow, Rows, Resting
<1>7. Types'
    BY <1>1, <1>2, <1>5, <1>6 DEF Types
<1>8. row'[o] = c /\ \A n \in Orders : n # o => row'[n] = row[n]
    BY <1>1, <1>2, <1>5 DEF Types
<1>9. \A n \in Orders : n \in Existing' <=> n \in Existing \/ n = o
    BY <1>6, <1>8 DEF Existing
<1>10. Grows
  <2>1. \A n \in Orders : settled[n] \in Nat
      BY <1>2 DEF Types
  <2>2. \A n \in Orders : settled[n] <= settled'[n]
      BY <1>1, <2>1
  <2>3. \A n \in Existing : n \in Orders
      BY DEF Existing
  <2> QED
      BY <1>1, <1>9, <2>2, <2>3 DEF Grows
<1>11. ASSUME NEW n \in Orders PROVE OrderOK(n)'
  <2>1. CASE n = o
    <3>1. CopyOK(n, row[n])' /\ CopyOK(n, cancelling[n])'
        BY <1>1, <1>3, <1>6, <1>8, <2>1 DEF CopyOK, NoRow
    <3>2. ~(settled'[n] > 0)
        BY <1>1, <1>3, <2>1
    <3> QED
        BY <1>1, <1>3, <1>9, <2>1, <3>1, <3>2 DEF OrderOK, Reaches
  <2>2. CASE n # o
    <3>1. OrderOK(n) /\ (n \in Existing' <=> n \in Existing)
        BY <1>2, <1>9, <2>2
    <3>2. row'[n] = row[n]
        BY <1>8, <2>2
    <3>3. CopyOK(n, row[n])' /\ CopyOK(n, cancelling[n])'
        BY <1>1, <3>1, <3>2 DEF OrderOK, CopyOK
    <3> QED
        BY <1>1, <3>1, <3>2, <3>3 DEF OrderOK, Reached, Reaches
  <2> QED
      BY <2>1, <2>2
<1> QED
  <2>1. PICK p : p \notin Passes
      BY NoSetContainsEverything
  <2> QED
      BY <1>1, <1>7, <1>10, <1>11, <2>1, SweepsStay

LEMMA CancelStarted ==
    ASSUME BookInv, NEW o \in Orders, CancelRead(o)
    PROVE  BookInv'
<1>1. /\ row[o].status \in Resting /\ cancelling' = [cancelling EXCEPT ![o] = row[o]]
      /\ UNCHANGED <<terms, row, lastPrice, sweep, settled, crossed>>
    BY DEF CancelRead, history
<1>2. Types /\ \A n \in Orders : OrderOK(n)
    BY DEF BookInv
<1>3. o \in Existing
    BY <1>1 DEF Existing, Resting
<1>4. Types' /\ Existing' = Existing
    BY <1>1, <1>2 DEF Types, Existing
<1>5. \A n \in Orders : cancelling'[n] = cancelling[n] \/ (n = o /\ cancelling'[n] = row[n])
    BY <1>1, <1>2 DEF Types
<1>6. Grows
  <2>1. \A n \in Orders : settled[n] \in Nat
      BY <1>2 DEF Types
  <2>2. \A n \in Orders : settled[n] <= settled'[n]
      BY <1>1, <2>1
  <2> QED
      BY <1>1, <1>4, <2>2 DEF Grows
<1>7. ASSUME NEW n \in Orders PROVE OrderOK(n)'
  <2>1. CopyOK(n, row[n])' /\ CopyOK(n, cancelling[n])'
      BY <1>1, <1>2, <1>5 DEF OrderOK, CopyOK
  <2>2. n \notin Existing => cancelling'[n] = cancelling[n]
      BY <1>3, <1>5
  <2> QED
      BY <1>1, <1>2, <1>4, <2>1, <2>2 DEF OrderOK, Reached, Reaches
<1> QED
  <2>1. PICK p : p \notin Passes
      BY NoSetContainsEverything
  <2> QED
      BY <1>1, <1>4, <1>6, <1>7, <2>1, SweepsStay

LEMMA CancelDone ==
    ASSUME BookInv, NEW o \in Orders, CancelSave(o)
    PROVE  BookInv'
<1>1. PICK c : c = [cancelling[o] EXCEPT !.status = "cancelled"]
    OBVIOUS
<1>2. /\ cancelling[o] # NoRow /\ row' = [row EXCEPT ![o] = c]
      /\ cancelling' = [cancelling EXCEPT ![o] = NoRow]
      /\ UNCHANGED <<terms, lastPrice, sweep, settled, crossed>>
    BY <1>1 DEF CancelSave, history
<1>3. Types /\ \A n \in Orders : OrderOK(n)
    BY DEF BookInv
<1>4. /\ o \in Existing /\ CopyOK(o, cancelling[o]) /\ cancelling[o] \in Rows
      /\ settled[o] \in Nat
    BY <1>2, <1>3 DEF OrderOK, Types
<1>5. /\ c \in Rows /\ c.status = "cancelled" /\ c.filled = cancelling[o].filled
      /\ c.armed = cancelling[o].armed
    BY <1>1, <1>4 DEF Rows, Terminal
<1>6. NoRow \in Rows /\ NoRow.filled = 0 /\ NoRow.armed = FALSE
    BY DEF NoRow, Rows
<1>7. Types'
    BY <1>2, <1>3, <1>5, <1>6 DEF Types
<1>8. /\ row'[o] = c /\ cancelling'[o] = NoRow
      /\ \A n \in Orders : n # o => row'[n] = row[n] /\ cancelling'[n] = cancelling[n]
    BY <1>2, <1>3 DEF Types
<1>9. Existing' = Existing
    BY <1>4, <1>5, <1>8 DEF Existing
<1>10. Grows
  <2>1. \A n \in Orders : settled[n] \in Nat
      BY <1>3 DEF Types
  <2>2. \A n \in Orders : settled[n] <= settled'[n]
      BY <1>2, <2>1
  <2> QED
      BY <1>2, <1>9, <2>2 DEF Grows
<1>11. ASSUME NEW n \in Orders PROVE OrderOK(n)'
  <2>1. CopyOK(n, row[n])' /\ CopyOK(n, cancelling[n])'
    <3>1. CASE n = o
      <4>1. 0 <= settled[o]
          BY <1>4
      <4> QED
          BY <1>2, <1>4, <1>5, <1>6, <1>8, <3>1, <4>1 DEF CopyOK
    <3>2. CASE n # o
        BY <1>2, <1>3, <1>8, <3>2 DEF OrderOK, CopyOK
    <3> QED
        BY <3>1, <3>2
  <2>2. n \notin Existing => row'[n] = row[n] /\ cancelling'[n] = cancelling[n]
      BY <1>4, <1>8
  <2> QED
      BY <1>2, <1>3, <1>9, <2>1, <2>2 DEF OrderOK, Reached, Reaches
<1> QED
  <2>1. PICK p : p \notin Passes
      BY NoSetContainsEverything
  <2> QED
      BY <1>2, <1>7, <1>10, <1>11, <2>1, SweepsStay

\* A step that changes nothing of this.
LEMMA BookSame ==
    ASSUME BookInv,
           UNCHANGED <<terms, row, lastPrice, sweep, cancelling, settled, crossed>>
    PROVE  BookInv'
<1>1. /\ Grows /\ row' \in [Orders -> Rows] /\ \A n \in Orders : OrderOK(n)'
    BY OrdersStay DEF RowWritten
<1>2. Types'
    BY DEF BookInv, Types
<1>3. PICK p : p \notin Passes
    BY NoSetContainsEverything
<1> QED
    BY <1>1, <1>2, <1>3, SweepsStay

LEMMA BookNext ==
    ASSUME BookInv, PriceInv, [Next]_vars
    PROVE  BookInv'
<1>1. CASE UNCHANGED vars
    BY <1>1, BookSame DEF vars
<1>2. ASSUME NEW o \in Orders, NEW t \in TermsOf[o], CheckOrder(o, t) PROVE BookInv'
    BY <1>2, OrderChecked
<1>3. ASSUME NEW o \in Orders, CancelRead(o) PROVE BookInv'
    BY <1>3, CancelStarted
<1>4. ASSUME NEW o \in Orders, CancelSave(o) PROVE BookInv'
    BY <1>4, CancelDone
<1>5. ASSUME NEW o \in Orders, Expire(o) PROVE BookInv'
    BY <1>5, BookSame DEF Expire, history
<1>6. ASSUME NEW p \in Prices, DirectTrade(p) PROVE BookInv'
    BY <1>6, DirectlyTraded
<1>7. ASSUME NEW r \in Replicas, StartSweep(r) PROVE BookInv'
    BY <1>7, SweepStarts
<1>8. ASSUME NEW r \in Replicas, Crash(r) PROVE BookInv'
    BY <1>8, SweepEnds
<1>9. ASSUME NEW r \in Replicas, Step(r) PROVE BookInv'
  <2>1. Covered(sweep[r].price)
      BY DEF PriceInv
  <2> QED
      BY <1>9, <2>1, PriceRead, StopsFound, StopArmed, OrdersListed, SweepEnds, OrderTaken,
         OrderClosed, TriggerChecked, StopTriggered, MakersFound, FillRecorded, FillThrown,
         OrderGivenUp, TakerSaved, MakerSaved DEF Step
<1>10. ASSUME NEW o \in Orders, SaveOrder(o) PROVE BookInv'
    BY <1>10, OrderSaved
<1> QED
    BY <1>1, <1>2, <1>3, <1>4, <1>5, <1>6, <1>7, <1>8, <1>9, <1>10 DEF Next

-----------------------------------------------------------------------------
(* The prices in the hands of the sweeps. *)

\* A step of a sweep writes the rows of orders that exist.
LEMMA NothingNew ==
    ASSUME BookInv, NEW r \in Replicas, Step(r), NEW n \in Orders \ Existing
    PROVE  row'[n] = row[n]
<1>1. \A m, c : m # n => [row EXCEPT ![m] = c][n] = row[n]
    BY DEF BookInv, Types
<1>2. CASE \/ ReadPrice(r) \/ FindStops(r) \/ ListOrders(r) \/ EndSweep(r) \/ MatchOrder(r)
           \/ CheckTrigger(r) \/ QueryThrows(r) \/ FindMakers(r) \/ RecordFill(r)
           \/ FillThrows(r) \/ FillsDone(r) \/ MatchThrows(r)
    BY <1>2 DEF ReadPrice, FindStops, ListOrders, EndSweep, MatchOrder, CheckTrigger,
                QueryThrows, FindMakers, RecordFill, FillThrows, FillsDone, MatchThrows
<1>3. CASE ExpireOrder(r) \/ TriggerOrder(r) \/ KillOrder(r) \/ SaveTaker(r)
  <2>1. sweep[r].order \in Existing
      BY <1>3, PassFacts
      DEF ExpireOrder, TriggerOrder, KillOrder, SaveTaker, TakerOK, Matching
  <2>2. \E c : row' = [row EXCEPT ![sweep[r].order] = c]
      BY <1>3 DEF ExpireOrder, TriggerOrder, KillOrder, SaveTaker
  <2> QED
      BY <1>1, <2>1, <2>2
<1>4. CASE ArmStop(r) \/ SaveMaker(r)
  <2>1. sweep[r].makers # <<>> /\ sweep[r].makers \in Seq(Makers)
      BY <1>4, PassFacts DEF ArmStop, SaveMaker, StatusOK, Saving
  <2>2. Head(sweep[r].makers) = sweep[r].makers[1] /\ 1 \in 1..Len(sweep[r].makers)
      BY <2>1, HeadTail
  <2>3. Head(sweep[r].makers).order \in Existing
      BY <2>2, PassFacts DEF MakersOK
  <2>4. \E c : row' = [row EXCEPT ![Head(sweep[r].makers).order] = c]
      BY <1>4 DEF ArmStop, SaveMaker
  <2> QED
      BY <1>1, <2>3, <2>4
<1> QED
    BY <1>2, <1>3, <1>4 DEF Step

\* A sweep has the price it had, the market's, or none.
LEMMA SweepPrices ==
    ASSUME BookInv, NEW r \in Replicas, StartSweep(r) \/ Step(r) \/ Crash(r)
    PROVE  \A q \in Replicas : sweep'[q].price \in {0, lastPrice, sweep[q].price}
<1>1. sweep[r] \in Passes /\ \A p, q : q # r => [sweep EXCEPT ![r] = p][q] = sweep[q]
    BY DEF BookInv, Types
<1>2. \A p : [sweep EXCEPT ![r] = p][r] = p
    BY DEF BookInv, Types
<1>3. Idle.price = 0 /\ \A x : [Idle EXCEPT !.at = "next", !.todo = x].price = 0
    BY DEF Idle
<1>4. SUFFICES \E p : /\ sweep' = [sweep EXCEPT ![r] = p]
                      /\ p.price \in {0, lastPrice, sweep[r].price}
    BY <1>1, <1>2
<1>5. ASSUME NextOrder(r) \/ sweep' = [sweep EXCEPT ![r] = Idle]
      PROVE  \E p : /\ sweep' = [sweep EXCEPT ![r] = p]
                    /\ p.price \in {0, lastPrice, sweep[r].price}
    BY <1>3, <1>5 DEF NextOrder
<1>6. ASSUME NEW to, Go(r, to)
      PROVE  \E p : /\ sweep' = [sweep EXCEPT ![r] = p]
                    /\ p.price \in {0, lastPrice, sweep[r].price}
  <2>1. PICK p : p = [sweep[r] EXCEPT !.at = to]
      OBVIOUS
  <2>2. p.price = sweep[r].price
      BY <1>1, <2>1 DEF Passes
  <2> QED
      BY <1>6, <2>1, <2>2 DEF Go
<1>7. CASE \/ EndSweep(r) \/ Crash(r) \/ ExpireOrder(r) \/ KillOrder(r) \/ FillThrows(r)
           \/ FillsDone(r) \/ QueryThrows(r) \/ MatchThrows(r)
    BY <1>5, <1>7 DEF EndSweep, Crash, ExpireOrder, KillOrder, FillThrows, FillsDone,
                      QueryThrows, MatchThrows
<1>8. CASE StartSweep(r) \/ SaveTaker(r) \/ CheckTrigger(r)
    BY <1>5, <1>6, <1>8 DEF StartSweep, SaveTaker, CheckTrigger
<1>9. CASE ReadPrice(r)
  <2>1. PICK x, p : /\ p = [sweep[r] EXCEPT !.at = x, !.price = lastPrice]
                    /\ sweep' = [sweep EXCEPT ![r].at = x, ![r].price = lastPrice]
      BY <1>9 DEF ReadPrice
  <2>2. p.price = lastPrice
      BY <1>1, <2>1 DEF Passes
  <2> QED
      BY <2>1, <2>2
<1>10. CASE FindStops(r)
  <2>1. PICK ms, p : /\ p = [sweep[r] EXCEPT !.at = "arm", !.price = 0, !.makers = ms]
                     /\ sweep' = [sweep EXCEPT ![r].at = "arm", ![r].price = 0,
                                              ![r].makers = ms]
      BY <1>10, ZenonT(60) DEF FindStops
  <2>2. p.price = 0
      BY <1>1, <2>1 DEF Passes
  <2> QED
      BY <2>1, <2>2
<1>11. CASE ArmStop(r) \/ SaveMaker(r)
  <2>1. PICK p : /\ \E x : p = [sweep[r] EXCEPT !.at = x, !.makers = Tail(sweep[r].makers)]
                 /\ sweep' = [sweep EXCEPT ![r] = p]
    <3>1. CASE SaveMaker(r)
        BY <3>1 DEF SaveMaker
    <3>2. CASE ArmStop(r)
      <4>1. sweep[r].at = "arm"
          BY <3>2 DEF ArmStop
      <4>2. PICK p : p = [sweep[r] EXCEPT !.makers = Tail(sweep[r].makers)]
          OBVIOUS
      <4>3. p = [sweep[r] EXCEPT !.at = "arm", !.makers = Tail(sweep[r].makers)]
          BY <1>1, <4>1, <4>2 DEF Passes
      <4> QED
          BY <3>2, <4>2, <4>3 DEF ArmStop
    <3> QED
        BY <1>11, <3>1, <3>2
  <2>2. p.price = sweep[r].price
      BY <1>1, <2>1 DEF Passes
  <2> QED
      BY <2>1, <2>2
<1>12. CASE ListOrders(r)
  <2>1. PICK p, s : /\ p = [sweep[r] EXCEPT !.at = "next", !.todo = s]
                    /\ sweep' = [sweep EXCEPT ![r] = p]
      BY <1>12, ZenonT(60) DEF ListOrders
  <2>2. p.price = sweep[r].price
      BY <1>1, <2>1 DEF Passes
  <2> QED
      BY <2>1, <2>2
<1>13. CASE MatchOrder(r)
  <2>1. CASE row[Head(sweep[r].todo)].status \in Terminal
      BY <1>5, <1>13, <2>1 DEF MatchOrder
  <2>2. CASE row[Head(sweep[r].todo)].status \notin Terminal
    <3> DEFINE o == Head(sweep[r].todo)
    <3>1. PICK x \in {"expire", "stop", "find"} :
            sweep' = [sweep EXCEPT ![r].order = o, ![r].copy = row[o], ![r].at = x]
        BY <1>13, <2>2 DEF MatchOrder
    <3>2. PICK p : p = [sweep[r] EXCEPT !.order = o, !.copy = row[o], !.at = x]
        OBVIOUS
    <3>3. p.price = sweep[r].price
        BY <1>1, <3>2 DEF Passes
    <3> QED
        BY <3>1, <3>2, <3>3
  <2> QED
      BY <2>1, <2>2
<1>14. CASE TriggerOrder(r)
  <2>1. PICK p, c : /\ p = [sweep[r] EXCEPT !.copy = c, !.at = "find"]
                    /\ sweep' = [sweep EXCEPT ![r] = p]
      BY <1>14 DEF TriggerOrder
  <2>2. p.price = sweep[r].price
      BY <1>1, <2>1 DEF Passes
  <2> QED
      BY <2>1, <2>2
<1>15. CASE FindMakers(r)
  <2>1. PICK s \in FindCrossingMakers(sweep[r].order) :
           \E x \in {"kill", "fill"}, ms \in {<<>>, Read(s)} :
              sweep' = [sweep EXCEPT ![r].makers = ms, ![r].at = x]
      BY <1>15 DEF FindMakers
  <2>2. PICK x \in {"kill", "fill"}, ms \in {<<>>, Read(s)} :
           sweep' = [sweep EXCEPT ![r].makers = ms, ![r].at = x]
      BY <2>1
  <2>3. PICK p : p = [sweep[r] EXCEPT !.makers = ms, !.at = x]
      OBVIOUS
  <2>4. p.price = sweep[r].price
      BY <1>1, <2>3 DEF Passes
  <2> QED
      BY <2>2, <2>3, <2>4
<1>16. CASE RecordFill(r)
  <2>1. PICK p, c, ms : /\ p = [sweep[r] EXCEPT !.at = "taker", !.copy = c, !.makers = ms]
                        /\ sweep' = [sweep EXCEPT ![r] = p]
      BY <1>16 DEF RecordFill, Take
  <2>2. p.price = sweep[r].price
      BY <1>1, <2>1 DEF Passes
  <2> QED
      BY <2>1, <2>2
<1> QED
    BY <1>7, <1>8, <1>9, <1>10, <1>11, <1>12, <1>13, <1>14, <1>15, <1>16 DEF Step

\* A sweep may take the market's price; new orders count as reached by it and by
\* the prices of the sweeps under way.
LEMMA PricesKept ==
    ASSUME BookInv, PriceInv, crossed \subseteq crossed',
           \A q \in Replicas : sweep'[q].price \in {0, lastPrice, sweep[q].price},
           \A o \in Existing' :
              /\ terms'[o] = terms[o]
              /\ \/ o \in Existing
                 \/ \A q \in Replicas : \A price \in {lastPrice, sweep[q].price} :
                       Reaches(terms[o], price) => o \in crossed'
    PROVE  PriceInv'
<1> SUFFICES ASSUME NEW q \in Replicas, NEW o \in Existing',
                    Reaches(terms'[o], sweep'[q].price)
             PROVE  o \in crossed'
    BY DEF PriceInv, Covered, Reaches
<1>1. PICK price : price = sweep'[q].price
    OBVIOUS
<1>2. Reaches(terms[o], price) /\ price \in {lastPrice, sweep[q].price}
    BY <1>1 DEF Reaches
<1>3. CASE o \in Existing
  <2>1. o \in Orders /\ OrderOK(o)
      BY <1>3 DEF BookInv, Existing
  <2> QED
      BY <1>2, <1>3, <2>1 DEF OrderOK, PriceInv, Covered
<1> QED
    BY <1>2, <1>3

LEMMA PriceNext ==
    ASSUME BookInv, PriceInv, [Next]_vars
    PROVE  PriceInv'
<1>1. \A q \in Replicas : sweep[q].price \in {0, lastPrice, sweep[q].price}
    OBVIOUS
<1>2. ASSUME UNCHANGED <<row, terms>>, crossed \subseteq crossed',
             \A q \in Replicas : sweep'[q].price \in {0, lastPrice, sweep[q].price}
      PROVE  PriceInv'
    BY <1>2, PricesKept DEF Existing
<1>3. CASE UNCHANGED vars
    BY <1>1, <1>2, <1>3 DEF vars
<1>4. ASSUME NEW o \in Orders, CancelRead(o) \/ Expire(o) PROVE PriceInv'
    BY <1>1, <1>2, <1>4 DEF CancelRead, Expire, history
<1>5. ASSUME NEW p \in Prices, DirectTrade(p) PROVE PriceInv'
  <2>1. UNCHANGED <<row, terms, sweep>> /\ Market(p)
      BY <1>5 DEF DirectTrade
  <2> QED
      BY <1>1, <1>2, <2>1, PriceMoves
<1>6. ASSUME NEW o \in Orders, NEW t \in TermsOf[o], CheckOrder(o, t) PROVE PriceInv'
  <2>1. /\ o \notin Existing /\ terms' = [terms EXCEPT ![o] = t]
        /\ UNCHANGED <<row, sweep, crossed>>
      BY <1>6, SavedTerms DEF CheckOrder, history
  <2>2. \A n \in Existing' : n \in Existing /\ terms'[n] = terms[n]
      BY <2>1 DEF Existing, BookInv, Types
  <2> QED
      BY <1>1, <2>1, <2>2, PricesKept
<1>7. ASSUME NEW o \in Orders, SaveOrder(o) PROVE PriceInv'
  <2>1. /\ row' = [row EXCEPT ![o].status = "open"] /\ UNCHANGED <<terms, sweep>>
        /\ crossed \subseteq crossed'
      BY <1>7 DEF SaveOrder
  <2>2. \A n \in Existing' : n \in Existing \/ n = o
      BY <2>1 DEF Existing, BookInv, Types
  <2>3. \A q \in Replicas : \A price \in {lastPrice, sweep[q].price} :
           Reaches(terms[o], price) => o \in crossed'
      BY <1>7 DEF SaveOrder
  <2> QED
      BY <1>1, <2>1, <2>2, <2>3, PricesKept
<1>8. ASSUME NEW o \in Orders, CancelSave(o) PROVE PriceInv'
  <2>1. /\ \E c : row' = [row EXCEPT ![o] = c]
        /\ cancelling[o] # NoRow /\ UNCHANGED <<terms, sweep, crossed>>
      BY <1>8 DEF CancelSave, history
  <2>2. o \in Existing
      BY <2>1 DEF BookInv, OrderOK
  <2>3. \A n \in Existing' : n \in Existing
      BY <2>1, <2>2 DEF Existing, BookInv, Types
  <2> QED
      BY <1>1, <2>1, <2>3, PricesKept
<1>9. ASSUME NEW r \in Replicas, StartSweep(r) \/ Crash(r) PROVE PriceInv'
  <2>1. UNCHANGED <<row, terms, crossed>>
      BY <1>9 DEF StartSweep, Crash
  <2> QED
      BY <1>2, <1>9, <2>1, SweepPrices
<1>10. ASSUME NEW r \in Replicas, Step(r) PROVE PriceInv'
  <2>1. UNCHANGED terms /\ crossed \subseteq crossed'
    <3>1. CASE RecordFill(r)
        BY <3>1, FillPrice, PriceMoves DEF RecordFill
    <3>2. CASE ~RecordFill(r)
        BY <1>10, <3>2
        DEF Step, ReadPrice, FindStops, ArmStop, ListOrders, EndSweep, MatchOrder,
            ExpireOrder, CheckTrigger, TriggerOrder, QueryThrows, FindMakers, KillOrder,
            FillThrows, FillsDone, SaveTaker, SaveMaker, MatchThrows, history
    <3> QED
        BY <3>1, <3>2
  <2>2. \A n \in Existing' : n \in Existing
    <3> SUFFICES ASSUME NEW n \in Existing', n \notin Existing PROVE FALSE
        OBVIOUS
    <3>1. n \in Orders /\ row'[n] = row[n]
        BY <1>10, NothingNew DEF Existing
    <3> QED
        BY <3>1 DEF Existing
  <2> QED
      BY <1>10, <2>1, <2>2, SweepPrices, PricesKept
<1> QED
    BY <1>3, <1>4, <1>5, <1>6, <1>7, <1>8, <1>9, <1>10 DEF Next

\* The book and the copies that sweeps and cancellations work on: what they
\* claim was settled, and a stop that is armed, or settled, has been reached by
\* a price that was the market's, or in the hands of a sweep, since it was placed.
THEOREM BookInvHolds == Spec => []BookInv
<1>1. Init => BookInv /\ PriceInv
  <2>1. Init => PriceInv
      BY DEF Init, PriceInv, Covered, Reaches, Idle
  <2> QED
      BY <2>1, BookInit
<1>2. BookInv /\ PriceInv /\ [Next]_vars => BookInv' /\ PriceInv'
    BY BookNext, PriceNext
<1> QED
    BY <1>1, <1>2, PTL DEF Spec

\* What TypeOK says beyond Types.
Rest ==
    /\ expired \subseteq Orders /\ crossed \subseteq Orders
    /\ faults \subseteq {"overlap", "lost"}

LEMMA RestNext ==
    ASSUME BookInv, Rest, [Next]_vars
    PROVE  Rest'
<1>1. ASSUME NEW price, Market(price) PROVE crossed' \subseteq Orders
    BY <1>1 DEF Market, Rest, Existing
<1>2. ASSUME NEW r \in Replicas, RecordFill(r) PROVE Rest'
    BY <1>1, <1>2 DEF RecordFill, Rest
<1>3. ASSUME NEW p \in Prices, DirectTrade(p) PROVE Rest'
    BY <1>1, <1>3 DEF DirectTrade, Rest
<1>4. ASSUME NEW r \in Replicas,
             \/ StartSweep(r) \/ Crash(r) \/ FillThrows(r) \/ MatchThrows(r)
      PROVE  Rest'
    BY <1>4 DEF StartSweep, Crash, FillThrows, MatchThrows, Trouble, Rest
<1>5. ASSUME NEW r \in Replicas,
             \/ ReadPrice(r) \/ FindStops(r) \/ ArmStop(r) \/ ListOrders(r) \/ EndSweep(r)
             \/ MatchOrder(r) \/ ExpireOrder(r) \/ CheckTrigger(r) \/ TriggerOrder(r)
             \/ QueryThrows(r) \/ FindMakers(r) \/ KillOrder(r) \/ FillsDone(r)
             \/ SaveTaker(r) \/ SaveMaker(r)
      PROVE  Rest'
    BY <1>5 DEF ReadPrice, FindStops, ArmStop, ListOrders, EndSweep, MatchOrder,
                ExpireOrder, CheckTrigger, TriggerOrder, QueryThrows, FindMakers,
                KillOrder, FillsDone, SaveTaker, SaveMaker, history, Rest
<1>6. ASSUME NEW o \in Orders,
             SaveOrder(o) \/ \E t \in TermsOf[o] : CheckOrder(o, t)
      PROVE  Rest'
    BY <1>6 DEF CheckOrder, SaveOrder, history, Rest
<1>7. ASSUME NEW o \in Orders, CancelRead(o) \/ CancelSave(o) \/ Expire(o) PROVE Rest'
    BY <1>7 DEF CancelRead, CancelSave, Expire, Existing, history, Rest
<1>8. ASSUME UNCHANGED vars PROVE Rest'
    BY <1>8 DEF vars, Rest
<1> QED
    BY <1>2, <1>3, <1>4, <1>5, <1>6, <1>7, <1>8 DEF Next, Step

\* Type correctness: in particular an order's columns are those of a request, its
\* row has a status of the enumeration, and the last price is one of a trade.
THEOREM MarketTypes == Spec => []TypeOK
<1>1. Init => Rest
    BY DEF Init, Rest
<1>2. BookInv /\ Rest /\ [Next]_vars => Rest'
    BY RestNext
<1>3. BookInv /\ Rest => TypeOK
  <2> SUFFICES ASSUME BookInv, Rest PROVE TypeOK
      OBVIOUS
  <2>1. \A o \in Orders : terms[o] \in TermsOf[o] \cup {NoTerms}
      BY DEF BookInv, OrderOK
  <2> QED
      BY <2>1 DEF BookInv, Types, Rest, TypeOK
<1> QED
    BY <1>1, <1>2, <1>3, BookInvHolds, PTL DEF Spec

\* The book never claims a fill that the chain has not settled: whatever row a
\* sweep or a cancellation writes back, its amount_filled counts only fills
\* whose contract call took effect, and those are never taken back.
THEOREM FilledIsSettledHolds == Spec => []FilledIsSettled
<1>1. BookInv => FilledIsSettled
    BY DEF BookInv, OrderOK, CopyOK, FilledIsSettled
<1> QED
    BY <1>1, BookInvHolds, PTL

\* A stop order is neither armed nor settled before its trigger has been reached
\* by a price that was the market's since it was placed, or that a sweep had read
\* before and not yet used: findDormantStops may return a stop that is younger
\* than the price it is compared with, but no price older than that moves it.
THEOREM DormantUntouchedHolds == Spec => []DormantUntouched
<1>1. BookInv => DormantUntouched
    BY DEF BookInv, OrderOK, CopyOK, Reached, Existing, DormantUntouched
<1> QED
    BY <1>1, BookInvHolds, PTL

-----------------------------------------------------------------------------
(* Terminal orders. *)

\* Who holds an order.
LEMMA Holders ==
    ASSUME BookInv, NEW r \in Replicas
    PROVE  /\ sweep[r].at \in {"expire", "stop", "trigger", "find", "kill", "taker", "maker"}
                => Held(sweep[r].order)
           /\ sweep[r].makers # <<>> => Held(Head(sweep[r].makers).order)
           /\ Filling(r) => Held(sweep[r].order)
<1>1. sweep[r].at \in {"expire", "stop", "trigger", "find", "kill", "taker", "maker"}
        => Held(sweep[r].order)
    BY PassFacts DEF StatusOK, Held
<1>2. sweep[r].makers # <<>> => Held(Head(sweep[r].makers).order)
  <2> SUFFICES ASSUME sweep[r].makers # <<>> PROVE Held(Head(sweep[r].makers).order)
      OBVIOUS
  <2>1. Head(sweep[r].makers) = sweep[r].makers[1] /\ 1 \in 1..Len(sweep[r].makers)
      BY PassFacts, HeadTail
  <2> QED
      BY <2>1 DEF Held
<1>3. Filling(r) => Held(sweep[r].order)
  <2> SUFFICES ASSUME Filling(r) PROVE Held(sweep[r].order)
      OBVIOUS
  <2>1. /\ sweep[r].at = "fill" /\ sweep[r].order \in Existing /\ sweep[r].copy \in Rows
        /\ FillAmount(r) \in Nat \ {0}
        /\ sweep[r].copy.filled + FillAmount(r) <= terms[sweep[r].order].amount
      BY FillFacts
  <2>2. sweep[r].copy.filled \in Nat /\ terms[sweep[r].order].amount \in Nat
      BY <2>1, Sizes DEF Rows
  <2>3. ~(sweep[r].copy.filled >= terms[sweep[r].order].amount)
      BY <2>1, <2>2
  <2>4. sweep[r].copy.status \in Resting
      BY <2>1, <2>3, PassFacts DEF StatusOK
  <2> QED
      BY <2>4 DEF Held
<1> QED
    BY <1>1, <1>2, <1>3

\* A step writes a row, or settles a fill, only for an order that it creates or
\* that somebody holds.
LEMMA OnlyHeld ==
    ASSUME BookInv, Next, NEW n \in Orders, n \in Existing, ~Held(n)
    PROVE  row'[n] = row[n] /\ settled'[n] = settled[n]
<1>1. row \in [Orders -> Rows] /\ settled \in [Orders -> Nat]
    BY DEF BookInv, Types
<1>2. \A m, c : m # n => [row EXCEPT ![m] = c][n] = row[n]
    BY <1>1
<1>3. ASSUME NEW o \in Orders, SaveOrder(o) \/ \E t \in TermsOf[o] : CheckOrder(o, t)
      PROVE  row'[n] = row[n] /\ settled'[n] = settled[n]
    BY <1>1, <1>3 DEF CheckOrder, SaveOrder, history
<1>4. ASSUME NEW o \in Orders, CancelSave(o)
      PROVE  row'[n] = row[n] /\ settled'[n] = settled[n]
    BY <1>2, <1>4 DEF CancelSave, history, Held
<1>5. ASSUME NEW o \in Orders, CancelRead(o) \/ Expire(o)
      PROVE  row'[n] = row[n] /\ settled'[n] = settled[n]
    BY <1>5 DEF CancelRead, Expire, history
<1>6. ASSUME NEW p \in Prices, DirectTrade(p)
      PROVE  row'[n] = row[n] /\ settled'[n] = settled[n]
    BY <1>6 DEF DirectTrade
<1>7. ASSUME NEW r \in Replicas, StartSweep(r) \/ Crash(r)
      PROVE  row'[n] = row[n] /\ settled'[n] = settled[n]
    BY <1>7 DEF StartSweep, Crash, history
<1>8. ASSUME NEW r \in Replicas, Step(r)
      PROVE  row'[n] = row[n] /\ settled'[n] = settled[n]
  <2>1. CASE \/ ReadPrice(r) \/ FindStops(r) \/ ListOrders(r) \/ EndSweep(r)
             \/ MatchOrder(r) \/ CheckTrigger(r) \/ QueryThrows(r) \/ FindMakers(r)
             \/ FillsDone(r) \/ MatchThrows(r)
      BY <2>1 DEF ReadPrice, FindStops, ListOrders, EndSweep, MatchOrder, CheckTrigger,
                  QueryThrows, FindMakers, FillsDone, MatchThrows, history
  <2>2. CASE ExpireOrder(r) \/ TriggerOrder(r) \/ KillOrder(r) \/ SaveTaker(r)
    <3>1. n # sweep[r].order
        BY <1>8, <2>2, Holders DEF ExpireOrder, TriggerOrder, KillOrder, SaveTaker
    <3>2. row' = row \/ \E c : row' = [row EXCEPT ![sweep[r].order] = c]
        BY <2>2 DEF ExpireOrder, TriggerOrder, KillOrder, SaveTaker
    <3>3. settled' = settled
        BY <2>2 DEF ExpireOrder, TriggerOrder, KillOrder, SaveTaker, history
    <3> QED
        BY <1>2, <3>1, <3>2, <3>3
  <2>3. CASE ArmStop(r) \/ SaveMaker(r)
    <3>1. sweep[r].makers # <<>>
        BY <1>8, <2>3, PassFacts DEF ArmStop, SaveMaker, StatusOK, Saving
    <3>2. n # Head(sweep[r].makers).order
        BY <1>8, <3>1, Holders
    <3>3. \E c : row' = [row EXCEPT ![Head(sweep[r].makers).order] = c]
        BY <2>3 DEF ArmStop, SaveMaker
    <3>4. settled' = settled
        BY <2>3 DEF ArmStop, SaveMaker, history
    <3> QED
        BY <1>2, <3>2, <3>3, <3>4
  <2>4. CASE RecordFill(r) \/ FillThrows(r)
    <3>1. Filling(r) /\ row' = row /\ (settled' = settled \/ Settle(r))
        BY <2>4 DEF RecordFill, FillThrows
    <3>2. sweep[r].makers # <<>> /\ sweep[r].makers[1] = Head(sweep[r].makers)
        BY <1>8, <3>1, FillFacts
    <3>3. n # sweep[r].order /\ n # sweep[r].makers[1].order
        BY <1>8, <3>1, <3>2, Holders
    <3>4. Settle(r) => settled'[n] = settled[n]
        BY <1>8, <3>1, <3>3, Settles
    <3> QED
        BY <3>1, <3>4
  <2> QED
      BY <1>8, <2>1, <2>2, <2>3, <2>4 DEF Step
<1> QED
    BY <1>3, <1>4, <1>5, <1>6, <1>7, <1>8 DEF Next

\* An order that is filled, cancelled or expired, and of which nobody holds an
\* older row, is final: no sweep or cancellation puts it back on the book, and
\* nothing more of it is settled, with any number of replicas and faults.
THEOREM TerminalIsFinalHolds == Spec => TerminalIsFinal
<1>1. BookInv /\ [Next]_vars => [FinalStays]_vars
  <2> SUFFICES ASSUME BookInv, Next PROVE FinalStays
      OBVIOUS
  <2>1. \A n \in Orders : row[n].status \in Terminal => n \in Existing
      BY DEF Terminal, Existing
  <2> QED
      BY <2>1, OnlyHeld DEF FinalStays
<1> QED
    BY <1>1, BookInvHolds, PTL DEF Spec, TerminalIsFinal

-----------------------------------------------------------------------------
(* While nothing has separated the book from the chain: at most one sweep    *)
(* runs, its copies are exact, and so is every row on the book that the      *)
(* sweep is not about to save.                                               *)

\* Between a settled fill and the saves the sweep at record s owes order o a save.
Owes(s, o) ==
    \/ s.at = "taker" /\ s.order = o
    \/ s.at \in Saving /\ s.makers[1].order = o

Alone == \A r, q \in Replicas : sweep[r].at # "idle" /\ sweep[q].at # "idle" => r = q

ExactCopies(s) ==
    /\ s.at \in Matching => s.copy.filled = settled[s.order]
    /\ \A k \in 1..Len(s.makers) : s.makers[k].copy.filled = settled[s.makers[k].order]

\* The orders of one round of fills are different orders.
DistinctOrders(s) ==
    s.at = "fill" \/ s.at \in Saving =>
       \A k \in 1..Len(s.makers) :
          /\ s.makers[k].order # s.order
          /\ \A l \in 1..Len(s.makers) : k # l => s.makers[k].order # s.makers[l].order

ExactPass(s) ==
    /\ s.at = "idle" => s.makers = <<>>
    /\ ExactCopies(s) /\ DistinctOrders(s)

RowExact(o) ==
    row[o].status \in Resting =>
       row[o].filled = settled[o] \/ \E r \in Replicas : Owes(sweep[r], o)

WithinSize(o) == settled[o] = 0 \/ settled[o] <= terms[o].amount

Exact ==
    /\ Alone
    /\ \A r \in Replicas : ExactPass(sweep[r])
    /\ \A o \in Orders : RowExact(o) /\ WithinSize(o)

ExactInv == faults = {} => Exact

LEMMA ExactInit == Init => ExactInv
<1> SUFFICES ASSUME Init PROVE Exact
    BY DEF ExactInv
<1>1. ExactPass(Idle)
    BY DEF ExactPass, ExactCopies, DistinctOrders, Idle, Matching, Saving
<1>2. \A o \in Orders : RowExact(o) /\ WithinSize(o)
    BY DEF Init, RowExact, WithinSize, NoRow, Resting
<1>3. Alone
    BY DEF Init, Alone, Idle
<1> QED
    BY <1>1, <1>2, <1>3 DEF Init, Exact

\* The other sweeps are idle.
Others(r) == \A q \in Replicas : q # r => sweep[q].at = "idle"

LEMMA OnlyOne ==
    ASSUME Exact, NEW r \in Replicas, sweep[r].at # "idle"
    PROVE  Others(r)
BY DEF Exact, Alone, Others

\* Then the rows on the book that this sweep does not owe a save are exact.
LEMMA BookExact ==
    ASSUME Exact, NEW r \in Replicas, Others(r), NEW o \in Orders,
           ~Owes(sweep[r], o), row[o].status \in Resting
    PROVE  row[o].filled = settled[o]
<1>1. \A q \in Replicas : ~Owes(sweep[q], o)
    BY DEF Others, Owes, Saving
<1> QED
    BY <1>1 DEF Exact, RowExact

\* A step of the only sweep that settles nothing: the rows it writes, and those
\* it no longer owes, are exact or off the book.
LEMMA ExactMoves ==
    ASSUME BookInv, Exact, NEW r \in Replicas, Others(r), UNCHANGED <<terms, settled>>,
           NEW p, sweep' = [sweep EXCEPT ![r] = p], ExactPass(p),
           \A n \in Orders :
              \/ row'[n] = row[n] /\ (Owes(sweep[r], n) => Owes(p, n))
              \/ row'[n].status \notin Resting
              \/ row'[n].filled = settled[n]
    PROVE  Exact'
<1>1. /\ sweep'[r] = p /\ \A q \in Replicas : q # r => sweep'[q] = sweep[q]
    BY DEF BookInv, Types
<1>2. Alone'
    BY <1>1 DEF Alone, Others
<1>3. ASSUME NEW q \in Replicas PROVE ExactPass(sweep[q])'
  <2>1. PICK s : s = sweep'[q] /\ ExactPass(s)
      BY <1>1 DEF Exact
  <2>2. ExactPass(s)'
      BY <2>1 DEF ExactPass, ExactCopies, DistinctOrders
  <2> QED
      BY <2>1, <2>2 DEF ExactPass, ExactCopies, DistinctOrders
<1>4. ASSUME NEW n \in Orders PROVE RowExact(n)' /\ WithinSize(n)'
  <2>1. WithinSize(n)'
      BY DEF Exact, WithinSize
  <2>2. ASSUME row'[n].status \in Resting
        PROVE  row'[n].filled = settled'[n] \/ \E q \in Replicas : Owes(sweep'[q], n)
    <3>1. CASE row'[n].filled = settled[n]
        BY <3>1
    <3>2. CASE row'[n] = row[n] /\ (Owes(sweep[r], n) => Owes(p, n))
      <4>1. CASE Owes(sweep[r], n)
          BY <1>1, <3>2, <4>1
      <4>2. CASE ~Owes(sweep[r], n)
          BY <2>2, <3>2, <4>2, BookExact
      <4> QED
          BY <4>1, <4>2
    <3> QED
        BY <2>2, <3>1, <3>2
  <2> QED
      BY <2>1, <2>2 DEF RowExact, Owes
<1> QED
    BY <1>2, <1>3, <1>4 DEF Exact

\* The sweep leaves the order, and the row it may have written is off the book.
LEMMA ExactLeft ==
    ASSUME BookInv, Exact, NEW r \in Replicas, sweep[r].at # "idle",
           sweep[r].at \notin Saving, UNCHANGED <<terms, settled>>,
           NEW p, sweep' = [sweep EXCEPT ![r] = p],
           p.makers = <<>>, p.at \in {"idle", "next"},
           \/ row' = row
           \/ \E o, c : row' = [row EXCEPT ![o] = c] /\ c.status \in Terminal
    PROVE  Exact'
<1>1. ExactPass(p)
    BY DEF ExactPass, ExactCopies, DistinctOrders, Matching, Saving
<1>2. \A n \in Orders : ~Owes(sweep[r], n)
    BY DEF Owes, Saving
<1>3. \A n \in Orders : row'[n] = row[n] \/ row'[n].status \in Terminal
    BY DEF BookInv, Types
<1>4. Others(r)
    BY OnlyOne
<1> QED
    BY <1>1, <1>2, <1>3, <1>4, ExactMoves DEF Resting, Terminal

LEMMA ExactStarts ==
    ASSUME BookInv, Exact, NEW r \in Replicas, StartSweep(r), faults' = {}
    PROVE  Exact'
<1>1. PICK p : p = [sweep[r] EXCEPT !.at = "stops"]
    OBVIOUS
<1>2. /\ sweep' = [sweep EXCEPT ![r] = p] /\ sweep[r].at = "idle"
      /\ UNCHANGED <<terms, settled, row>>
    BY <1>1 DEF StartSweep, Go
<1>3. Others(r)
    BY DEF StartSweep, Trouble, Others
<1>4. p.at = "stops" /\ p.makers = <<>>
    BY <1>1, <1>2, PassFacts DEF Passes, Exact, ExactPass
<1>5. ExactPass(p)
    BY <1>4 DEF ExactPass, ExactCopies, DistinctOrders, Matching, Saving
<1>6. \A n \in Orders : ~Owes(sweep[r], n)
    BY <1>2 DEF Owes, Saving
<1> QED
    BY <1>2, <1>3, <1>5, <1>6, ExactMoves

LEMMA ExactPrices ==
    ASSUME BookInv, Exact, NEW r \in Replicas, ReadPrice(r)
    PROVE  Exact'
<1>0. PICK x \in {"arm", "dormant"} :
         sweep' = [sweep EXCEPT ![r].at = x, ![r].price = lastPrice]
    BY DEF ReadPrice
<1>1. PICK p : p = [sweep[r] EXCEPT !.at = x, !.price = lastPrice]
    OBVIOUS
<1>2. /\ sweep' = [sweep EXCEPT ![r] = p] /\ sweep[r].at = "stops"
      /\ UNCHANGED <<terms, settled, row>>
    BY <1>0, <1>1 DEF ReadPrice, history
<1>3. p.at = x /\ p.makers = sweep[r].makers
    BY <1>1, PassFacts DEF Passes
<1>4. ExactPass(p)
    BY <1>3 DEF ExactPass, ExactCopies, DistinctOrders, Matching, Saving, Exact
<1>5. Others(r) /\ \A n \in Orders : ~Owes(sweep[r], n)
    BY <1>2, OnlyOne DEF Owes, Saving
<1> QED
    BY <1>2, <1>4, <1>5, ExactMoves

LEMMA ExactLeaves ==
    ASSUME BookInv, Exact, NEW r \in Replicas, faults' = {},
           \/ EndSweep(r) \/ Crash(r) \/ ExpireOrder(r) \/ KillOrder(r)
           \/ FillsDone(r) \/ MatchThrows(r) \/ FillThrows(r) \/ QueryThrows(r)
    PROVE  Exact'
<1>1. sweep[r].at # "idle" /\ sweep[r].at \notin Saving
    BY DEF EndSweep, Crash, ExpireOrder, KillOrder, FillsDone, MatchThrows, FillThrows, QueryThrows,
           Filling, Trouble, Saving
<1>2. UNCHANGED <<terms, settled>>
    BY DEF EndSweep, Crash, ExpireOrder, KillOrder, FillsDone, MatchThrows, FillThrows, QueryThrows,
           Trouble, history
<1>3. PICK p : /\ sweep' = [sweep EXCEPT ![r] = p]
               /\ p = Idle \/ p = [Idle EXCEPT !.at = "next", !.todo = Tail(sweep[r].todo)]
    BY DEF EndSweep, Crash, ExpireOrder, KillOrder, FillsDone, MatchThrows, FillThrows, QueryThrows,
           NextOrder
<1>4. p.makers = <<>> /\ p.at \in {"idle", "next"}
  <2>1. Idle.makers = <<>> /\ Idle.at = "idle"
      BY DEF Idle
  <2>2. \A x : [Idle EXCEPT !.at = "next", !.todo = x].makers = <<>>
      BY DEF Idle
  <2>3. \A x : [Idle EXCEPT !.at = "next", !.todo = x].at = "next"
      BY DEF Idle
  <2> QED
      BY <1>3, <2>1, <2>2, <2>3
<1>5. \/ row' = row
      \/ \E o, c : row' = [row EXCEPT ![o] = c] /\ c.status \in Terminal
  <2>1. CASE ExpireOrder(r) \/ KillOrder(r)
    <3>1. PICK x \in Terminal :
             row' = [row EXCEPT ![sweep[r].order] = [sweep[r].copy EXCEPT !.status = x]]
        BY <2>1 DEF ExpireOrder, KillOrder, Terminal
    <3>2. [sweep[r].copy EXCEPT !.status = x].status = x
        BY PassFacts DEF Rows
    <3> QED
        BY <3>1, <3>2
  <2>2. CASE \/ EndSweep(r) \/ Crash(r) \/ FillsDone(r) \/ MatchThrows(r) \/ FillThrows(r)
             \/ QueryThrows(r)
      BY <2>2 DEF EndSweep, Crash, FillsDone, MatchThrows, FillThrows, QueryThrows
  <2> QED
      BY <2>1, <2>2
<1> QED
    BY <1>1, <1>2, <1>3, <1>4, <1>5, ExactLeft

LEMMA ExactStops ==
    ASSUME BookInv, Exact, NEW r \in Replicas, FindStops(r)
    PROVE  Exact'
<1> DEFINE stops == {o \in Existing : /\ terms[o].type = "stop_loss"
                                      /\ row[o].status = "open"
                                      /\ TriggerSatisfied(terms[o], sweep[r].price)}
<1>1. PICK s \in SetToSeqs(stops) :
         sweep' = [sweep EXCEPT ![r].at = "arm", ![r].price = 0, ![r].makers = Read(s)]
    BY DEF FindStops
<1>2. PICK p : p = [sweep[r] EXCEPT !.at = "arm", !.price = 0, !.makers = Read(s)]
    OBVIOUS
<1>3. /\ sweep' = [sweep EXCEPT ![r] = p] /\ sweep[r].at = "dormant"
      /\ UNCHANGED <<terms, settled, row>>
    BY <1>1, <1>2 DEF FindStops, history
<1>4. /\ Read(s) \in Seq(Makers) /\ Len(Read(s)) = Len(s)
      /\ \A k \in 1..Len(s) : /\ s[k] \in stops
                              /\ Read(s)[k].order = s[k]
                              /\ Read(s)[k].copy = row[s[k]]
  <2>1. stops \in SUBSET Orders
      BY DEF Existing
  <2> HIDE DEF stops
  <2> QED
      BY <2>1, ReadRows, MarketAssumption, SMTT(30) DEF BookInv, Types
<1>5. p.at = "arm" /\ p.makers = Read(s)
    BY <1>2, <1>4, PassFacts DEF Passes
<1>6. Others(r) /\ \A n \in Orders : ~Owes(sweep[r], n)
    BY <1>3, OnlyOne DEF Owes, Saving
<1>7. \A n \in stops : row[n].filled = settled[n]
    BY <1>6, BookExact DEF Existing, Resting
<1>8. ExactPass(p)
    BY <1>4, <1>5, <1>7 DEF ExactPass, ExactCopies, DistinctOrders, Matching, Saving
<1> QED
  <2> HIDE DEF stops
  <2> QED
      BY <1>3, <1>6, <1>8, ExactMoves

LEMMA ExactArms ==
    ASSUME BookInv, Exact, NEW r \in Replicas, ArmStop(r)
    PROVE  Exact'
<1> DEFINE m == sweep[r].makers[1]
           c == [m.copy EXCEPT !.status = "triggered", !.armed = TRUE]
<1>1. PICK p : p = [sweep[r] EXCEPT !.makers = Tail(sweep[r].makers)]
    OBVIOUS
<1>2. sweep[r].makers \in Seq(Makers) /\ sweep[r].makers # <<>> /\ sweep[r].at = "arm"
    BY PassFacts DEF ArmStop
<1>3. /\ Head(sweep[r].makers) = m /\ m \in Makers /\ 1 \in 1..Len(sweep[r].makers)
      /\ \A k \in 1..Len(Tail(sweep[r].makers)) :
            /\ k + 1 \in 1..Len(sweep[r].makers)
            /\ Tail(sweep[r].makers)[k] = sweep[r].makers[k + 1]
    BY <1>2, HeadTail
<1>4. /\ sweep' = [sweep EXCEPT ![r] = p]
      /\ row' = [row EXCEPT ![m.order] = c]
      /\ UNCHANGED <<terms, settled>>
    BY <1>1, <1>3 DEF ArmStop, history
<1>5. m.copy \in Rows
    BY <1>3 DEF Makers
<1>6. c.filled = settled[m.order]
  <2>1. c.filled = m.copy.filled
      BY <1>5 DEF Rows
  <2> QED
      BY <1>3, <2>1 DEF Exact, ExactPass, ExactCopies
<1>7. p.at = "arm" /\ p.makers = Tail(sweep[r].makers)
    BY <1>1, <1>2, PassFacts DEF Passes
<1>8. ExactPass(p)
    BY <1>3, <1>7 DEF ExactPass, ExactCopies, DistinctOrders, Matching, Saving, Exact
<1>9. Others(r) /\ \A n \in Orders : ~Owes(sweep[r], n)
    BY <1>2, OnlyOne DEF Owes, Saving
<1>10. \A n \in Orders : row'[n] = row[n] \/ row'[n].filled = settled[n]
  <2> HIDE DEF c, m
  <2> QED
      BY <1>4, <1>6 DEF BookInv, Types
<1> QED
  <2> HIDE DEF c, m
  <2> QED
      BY <1>4, <1>8, <1>9, <1>10, ExactMoves

LEMMA ExactLists ==
    ASSUME BookInv, Exact, NEW r \in Replicas, ListOrders(r)
    PROVE  Exact'
<1>1. PICK p, s : p = [sweep[r] EXCEPT !.at = "next", !.todo = s]
                  /\ sweep' = [sweep EXCEPT ![r] = p]
    BY ZenonT(60) DEF ListOrders
<1>2. /\ UNCHANGED <<terms, settled, row>> /\ sweep[r].at = "arm" /\ sweep[r].makers = <<>>
    BY DEF ListOrders, history
<1>3. p.at = "next" /\ p.makers = <<>>
    BY <1>1, <1>2, PassFacts DEF Passes
<1> QED
    BY <1>1, <1>2, <1>3, ExactLeft DEF Saving

LEMMA ExactTakes ==
    ASSUME BookInv, Exact, NEW r \in Replicas, MatchOrder(r)
    PROVE  Exact'
<1> DEFINE o == Head(sweep[r].todo)
<1>1. /\ sweep[r].todo # <<>> /\ sweep[r].at = "next"
      /\ UNCHANGED <<terms, settled, row>>
    BY DEF MatchOrder, history
<1>2. o \in Existing /\ o \in Orders
  <2>1. o = sweep[r].todo[1] /\ 1 \in 1..Len(sweep[r].todo) /\ o \in Orders
      BY <1>1, PassFacts, HeadTail
  <2> QED
      BY <2>1, PassFacts DEF TodoOK
<1>3. CASE row[o].status \in Terminal
  <2>1. PICK p : p = [Idle EXCEPT !.at = "next", !.todo = Tail(sweep[r].todo)]
      OBVIOUS
  <2>2. sweep' = [sweep EXCEPT ![r] = p]
      BY <1>3, <2>1 DEF MatchOrder, NextOrder
  <2>3. p.makers = <<>> /\ p.at = "next"
      BY <2>1 DEF Idle
  <2> QED
      BY <1>1, <2>2, <2>3, ExactLeft DEF Saving
<1>4. CASE row[o].status \notin Terminal
  <2>1. PICK x \in {"expire", "stop", "find"} :
          sweep' = [sweep EXCEPT ![r].order = o, ![r].copy = row[o], ![r].at = x]
      BY <1>4 DEF MatchOrder
  <2>2. PICK p : p = [sweep[r] EXCEPT !.order = o, !.copy = row[o], !.at = x]
      OBVIOUS
  <2>3. sweep' = [sweep EXCEPT ![r] = p]
      BY <2>1, <2>2
  <2>4. Others(r) /\ \A n \in Orders : ~Owes(sweep[r], n)
      BY <1>1, OnlyOne DEF Owes, Saving
  <2>5. row[o].filled = settled[o]
    <3> HIDE DEF o
    <3>1. row[o].status \in Resting
        BY <1>2, <1>4 DEF BookInv, Types, Existing, Rows
    <3> QED
        BY <1>2, <2>4, <3>1, BookExact
  <2>6. p.order = o /\ p.copy = row[o] /\ p.at = x /\ p.makers = sweep[r].makers
      BY <2>2, PassFacts DEF Passes
  <2>7. ExactPass(p)
    <3> HIDE DEF o
    <3>1. ExactCopies(p)
        BY <2>5, <2>6 DEF ExactCopies, Exact, ExactPass
    <3> QED
        BY <2>6, <3>1 DEF ExactPass, DistinctOrders, Saving
  <2> QED
    <3> HIDE DEF o
    <3> QED
        BY <1>1, <2>3, <2>4, <2>7, ExactMoves
<1> QED
    BY <1>3, <1>4

LEMMA ExactChecks ==
    ASSUME BookInv, Exact, NEW r \in Replicas, CheckTrigger(r)
    PROVE  Exact'
<1>1. sweep[r].at = "stop" /\ UNCHANGED <<terms, settled, row>>
    BY DEF CheckTrigger, history
<1>2. CASE NextOrder(r)
  <2>1. PICK p : p = [Idle EXCEPT !.at = "next", !.todo = Tail(sweep[r].todo)]
      OBVIOUS
  <2>2. sweep' = [sweep EXCEPT ![r] = p]
      BY <1>2, <2>1 DEF NextOrder
  <2>3. p.makers = <<>> /\ p.at = "next"
      BY <2>1 DEF Idle
  <2> QED
      BY <1>1, <2>2, <2>3, ExactLeft DEF Saving
<1>3. CASE Go(r, "trigger")
  <2>1. PICK p : p = [sweep[r] EXCEPT !.at = "trigger"]
      OBVIOUS
  <2>2. sweep' = [sweep EXCEPT ![r] = p]
      BY <1>3, <2>1 DEF Go
  <2>3. /\ p.order = sweep[r].order /\ p.copy = sweep[r].copy /\ p.at = "trigger"
        /\ p.makers = sweep[r].makers
      BY <2>1, PassFacts DEF Passes
  <2>4. ExactPass(p)
    <3>1. ExactCopies(p)
        BY <1>1, <2>3 DEF ExactCopies, Exact, ExactPass, Matching
    <3> QED
        BY <2>3, <3>1 DEF ExactPass, DistinctOrders, Saving
  <2>5. Others(r) /\ \A n \in Orders : ~Owes(sweep[r], n)
      BY <1>1, OnlyOne DEF Owes, Saving
  <2> QED
      BY <1>1, <2>2, <2>4, <2>5, ExactMoves
<1> QED
    BY <1>2, <1>3 DEF CheckTrigger

LEMMA ExactTriggers ==
    ASSUME BookInv, Exact, NEW r \in Replicas, TriggerOrder(r)
    PROVE  Exact'
<1>1. sweep[r].at = "trigger" /\ UNCHANGED <<terms, settled>>
    BY DEF TriggerOrder, history
<1>2. PICK c : c = [sweep[r].copy EXCEPT !.status = "triggered", !.armed = TRUE]
    OBVIOUS
<1>3. PICK p : p = [sweep[r] EXCEPT !.copy = c, !.at = "find"]
    OBVIOUS
<1>4. row' = [row EXCEPT ![sweep[r].order] = c] /\ sweep' = [sweep EXCEPT ![r] = p]
    BY <1>2, <1>3 DEF TriggerOrder
<1>5. c.filled = settled[sweep[r].order]
  <2>1. c.filled = sweep[r].copy.filled
      BY <1>2, PassFacts DEF Rows
  <2> QED
      BY <1>1, <2>1 DEF Exact, ExactPass, ExactCopies, Matching
<1>6. /\ p.order = sweep[r].order /\ p.copy = c /\ p.at = "find"
      /\ p.makers = sweep[r].makers
    BY <1>3, PassFacts DEF Passes
<1>7. ExactPass(p)
  <2>1. ExactCopies(p)
      BY <1>5, <1>6 DEF ExactCopies, Exact, ExactPass
  <2> QED
      BY <1>6, <2>1 DEF ExactPass, DistinctOrders, Saving
<1>8. Others(r) /\ \A n \in Orders : ~Owes(sweep[r], n)
    BY <1>1, OnlyOne DEF Owes, Saving
<1>9. \A n \in Orders : row'[n] = row[n] \/ row'[n].filled = settled[n]
    BY <1>4, <1>5 DEF BookInv, Types
<1> QED
    BY <1>1, <1>4, <1>7, <1>8, <1>9, ExactMoves

LEMMA ExactFinds ==
    ASSUME BookInv, Exact, NEW r \in Replicas, FindMakers(r)
    PROVE  Exact'
<1> DEFINE o == sweep[r].order
           S == {m \in CrossingMakers(o) : terms[m].user # terms[o].user}
<1>1. PICK s \in SetToSeqs(S) : \E x \in {"kill", "fill"}, ms \in {<<>>, Read(s)} :
         sweep' = [sweep EXCEPT ![r].makers = ms, ![r].at = x]
    BY DEF FindMakers, FindCrossingMakers, InOrder
<1>2. /\ Len(Read(s)) = Len(s)
      /\ \A k \in 1..Len(s) : /\ s[k] \in S
                              /\ Read(s)[k].order = s[k]
                              /\ Read(s)[k].copy = row[s[k]]
      /\ \A k, l \in 1..Len(s) : k # l => s[k] # s[l]
  <2>1. S \in SUBSET Orders
      BY DEF CrossingMakers, Existing
  <2>2. row \in [Orders -> Rows] /\ OrderCount \in Nat
      BY MarketAssumption DEF BookInv, Types
  <2> HIDE DEF S
  <2> QED
      BY <2>1, <2>2, ReadRows
<1>3. PICK x \in {"kill", "fill"}, ms \in {<<>>, Read(s)} :
         sweep' = [sweep EXCEPT ![r].makers = ms, ![r].at = x]
    BY <1>1
<1>4. PICK p : p = [sweep[r] EXCEPT !.makers = ms, !.at = x]
    OBVIOUS
<1>5. /\ sweep' = [sweep EXCEPT ![r] = p] /\ sweep[r].at = "find"
      /\ UNCHANGED <<terms, settled, row>>
    BY <1>3, <1>4 DEF FindMakers, history
<1>6. Others(r) /\ \A n \in Orders : ~Owes(sweep[r], n)
    BY <1>5, OnlyOne DEF Owes, Saving
<1>7. \A n \in S : row[n].filled = settled[n] /\ n # o
  <2> SUFFICES ASSUME NEW n \in S PROVE row[n].filled = settled[n] /\ n # o
      OBVIOUS
  <2>1. n \in Orders /\ row[n].status \in Resting /\ terms[n].user # terms[o].user
      BY DEF CrossingMakers, Existing
  <2>2. row[n].filled = settled[n]
      BY <1>6, <2>1, BookExact
  <2> QED
      BY <2>1, <2>2
<1>8. \A k \in 1..Len(ms) :
         /\ ms[k].order # o /\ ms[k].copy.filled = settled[ms[k].order]
         /\ \A l \in 1..Len(ms) : k # l => ms[k].order # ms[l].order
  <2> HIDE DEF S, o
  <2>1. CASE ms = <<>>
      BY <2>1
  <2>2. CASE ms = Read(s)
      BY <1>2, <1>7, <2>2
  <2> QED
      BY <2>1, <2>2
<1>9. p.order = o /\ p.copy = sweep[r].copy /\ p.at = x /\ p.makers = ms
    BY <1>4, PassFacts DEF Passes
<1>10. sweep[r].copy.filled = settled[o]
    BY <1>5 DEF Exact, ExactPass, ExactCopies, Matching
<1>11. ExactPass(p)
  <2> HIDE DEF S, o
  <2>1. ExactCopies(p)
      BY <1>8, <1>9, <1>10 DEF ExactCopies
  <2>2. DistinctOrders(p)
      BY <1>8, <1>9 DEF DistinctOrders
  <2> QED
      BY <1>9, <2>1, <2>2 DEF ExactPass
<1> QED
  <2> HIDE DEF S, o
  <2> QED
      BY <1>5, <1>6, <1>11, ExactMoves

LEMMA ExactSavesTaker ==
    ASSUME BookInv, Exact, NEW r \in Replicas, SaveTaker(r)
    PROVE  Exact'
<1>1. PICK p : p = [sweep[r] EXCEPT !.at = "maker"]
    OBVIOUS
<1>2. /\ sweep' = [sweep EXCEPT ![r] = p] /\ sweep[r].at = "taker"
      /\ row' = [row EXCEPT ![sweep[r].order] = sweep[r].copy]
      /\ UNCHANGED <<terms, settled>>
    BY <1>1 DEF SaveTaker, Go, history
<1>3. /\ p.order = sweep[r].order /\ p.copy = sweep[r].copy /\ p.at = "maker"
      /\ p.makers = sweep[r].makers
    BY <1>1, PassFacts DEF Passes
<1>4. ExactPass(sweep[r])
    BY DEF Exact
<1>5. sweep[r].copy.filled = settled[sweep[r].order]
    BY <1>2, <1>4 DEF ExactPass, ExactCopies, Matching
<1>6. ExactPass(p)
  <2>1. ExactCopies(p)
      BY <1>3, <1>4, <1>5 DEF ExactPass, ExactCopies
  <2>2. DistinctOrders(p)
      BY <1>2, <1>3, <1>4 DEF ExactPass, DistinctOrders, Saving
  <2> QED
      BY <1>3, <2>1, <2>2 DEF ExactPass
<1>7. \A n \in Orders :
         \/ row'[n] = row[n] /\ (Owes(sweep[r], n) => Owes(p, n))
         \/ row'[n].filled = settled[n]
  <2> SUFFICES ASSUME NEW n \in Orders, n # sweep[r].order
               PROVE  row'[n] = row[n] /\ (Owes(sweep[r], n) => Owes(p, n))
      BY <1>2, <1>5 DEF BookInv, Types
  <2>1. row'[n] = row[n]
      BY <1>2 DEF BookInv, Types
  <2> QED
      BY <1>2, <1>3, <2>1 DEF Owes, Saving
<1>8. Others(r)
    BY <1>2, OnlyOne
<1> QED
    BY <1>2, <1>6, <1>7, <1>8, ExactMoves

LEMMA ExactSavesMaker ==
    ASSUME BookInv, Exact, NEW r \in Replicas, SaveMaker(r)
    PROVE  Exact'
<1> DEFINE m == sweep[r].makers[1]
<1>1. PICK p : p = [sweep[r] EXCEPT !.at = "fill", !.makers = Tail(sweep[r].makers)]
    OBVIOUS
<1>2. /\ sweep[r].makers \in Seq(Makers) /\ sweep[r].makers # <<>>
      /\ sweep[r].at = "maker"
    BY PassFacts DEF SaveMaker, StatusOK, Saving
<1>3. /\ Head(sweep[r].makers) = m /\ 1 \in 1..Len(sweep[r].makers)
      /\ \A k \in 1..Len(Tail(sweep[r].makers)) :
            /\ k + 1 \in 1..Len(sweep[r].makers)
            /\ Tail(sweep[r].makers)[k] = sweep[r].makers[k + 1]
    BY <1>2, HeadTail
<1>4. /\ sweep' = [sweep EXCEPT ![r] = p]
      /\ row' = [row EXCEPT ![m.order] = m.copy]
      /\ UNCHANGED <<terms, settled>>
    BY <1>1, <1>3 DEF SaveMaker, history
<1>5. p.at = "fill" /\ p.makers = Tail(sweep[r].makers) /\ p.order = sweep[r].order
      /\ p.copy = sweep[r].copy
    BY <1>1, PassFacts DEF Passes
<1>6. ExactPass(sweep[r])
    BY DEF Exact
<1>7. m.copy.filled = settled[m.order]
    BY <1>3, <1>6 DEF ExactPass, ExactCopies
<1>8. ExactPass(p)
  <2>1. ExactCopies(p)
      BY <1>2, <1>3, <1>5, <1>6 DEF ExactPass, ExactCopies, Matching
  <2>2. DistinctOrders(p)
    <3>1. \A k, l \in 1..Len(Tail(sweep[r].makers)) : k # l => k + 1 # l + 1
        OBVIOUS
    <3> QED
        BY <1>2, <1>3, <1>5, <1>6, <3>1 DEF ExactPass, DistinctOrders, Saving
  <2> QED
      BY <1>5, <2>1, <2>2 DEF ExactPass
<1>9. \A n \in Orders :
         \/ row'[n] = row[n] /\ (Owes(sweep[r], n) => Owes(p, n))
         \/ row'[n].filled = settled[n]
  <2> SUFFICES ASSUME NEW n \in Orders, n # m.order
               PROVE  row'[n] = row[n] /\ (Owes(sweep[r], n) => Owes(p, n))
      BY <1>4, <1>7 DEF BookInv, Types
  <2>1. row'[n] = row[n]
      BY <1>4 DEF BookInv, Types
  <2> QED
      BY <1>2, <2>1 DEF Owes, Saving
<1>10. Others(r)
    BY <1>2, OnlyOne
<1> QED
    BY <1>4, <1>8, <1>9, <1>10, ExactMoves

LEMMA ExactFills ==
    ASSUME BookInv, Exact, NEW r \in Replicas, RecordFill(r)
    PROVE  Exact'
<1>1. Filling(r) /\ Settle(r) /\ UNCHANGED <<terms, row>>
    BY DEF RecordFill
<1>2. PICK s, a, o, m : /\ s = sweep[r] /\ a = FillAmount(r)
                        /\ o = s.order /\ m = s.makers[1].order
    OBVIOUS
<1>3. PICK p \in Passes : sweep' = [sweep EXCEPT ![r] = p] /\ Advanced(s, p, a)
    BY <1>1, <1>2, FillTaken DEF RecordFill
<1>4. /\ s.at = "fill" /\ s.makers # <<>> /\ 1 \in 1..Len(s.makers)
      /\ o \in Orders /\ m \in Orders /\ a \in Nat
      /\ s.copy.filled + a <= terms[o].amount
      /\ s.makers[1].copy.filled + a <= terms[m].amount
  <2>1. /\ s.at = "fill" /\ s.makers # <<>> /\ o \in Orders /\ m \in Orders /\ a \in Nat
        /\ s.copy.filled + a <= terms[o].amount
        /\ s.makers[1].copy.filled + a <= terms[m].amount
      BY <1>1, <1>2, FillFacts
  <2>2. s.makers \in Seq(Makers)
      BY <1>2, PassFacts
  <2> QED
      BY <2>1, <2>2
<1>5. /\ \A n \in Orders : n # o /\ n # m => settled'[n] = settled[n]
      /\ settled'[o] = settled[o] + a /\ settled'[m] = settled[m] + a
    BY <1>1, <1>2, Settles
<1>6. ExactCopies(s) /\ DistinctOrders(s)
    BY <1>2 DEF Exact, ExactPass
<1>7. /\ s.copy.filled = settled[o] /\ s.makers[1].copy.filled = settled[m]
      /\ \A k \in 1..Len(s.makers) :
            k # 1 => /\ s.makers[k].copy.filled = settled[s.makers[k].order]
                     /\ s.makers[k].order # o /\ s.makers[k].order # m
                     /\ s.makers[k].order \in Orders
  <2>1. s.copy.filled = settled[o] /\ s.makers[1].copy.filled = settled[m]
      BY <1>2, <1>4, <1>6 DEF ExactCopies, Matching
  <2>2. s.makers \in Seq(Makers)
      BY <1>2, PassFacts
  <2>3. \A k \in 1..Len(s.makers) : s.makers[k].order \in Orders
    <3>1. \A k \in 1..Len(s.makers) : s.makers[k] \in Makers
        BY <2>2
    <3> QED
        BY <3>1 DEF Makers
  <2> QED
      BY <1>2, <1>4, <1>6, <2>1, <2>3 DEF ExactCopies, DistinctOrders
<1>8. ExactPass(p)'
  <2>1. p.copy.filled = settled'[o] /\ p.makers[1].copy.filled = settled'[m]
      BY <1>3, <1>5, <1>7 DEF Advanced
  <2>2. \A k \in 1..Len(p.makers) : p.makers[k].copy.filled = settled'[p.makers[k].order]
    <3> SUFFICES ASSUME NEW k \in 1..Len(p.makers)
                 PROVE  p.makers[k].copy.filled = settled'[p.makers[k].order]
        OBVIOUS
    <3>1. CASE k = 1
        BY <1>2, <1>3, <2>1, <3>1 DEF Advanced
    <3>2. CASE k # 1
      <4>1. k \in 1..Len(s.makers) /\ p.makers[k] = s.makers[k]
          BY <1>3, <3>2 DEF Advanced
      <4> QED
          BY <1>5, <1>7, <3>2, <4>1
    <3> QED
        BY <3>1, <3>2
  <2>3. \A k \in 1..Len(p.makers) : p.makers[k].order = s.makers[k].order
      BY <1>3 DEF Advanced
  <2>4. DistinctOrders(p)'
      BY <1>3, <1>4, <1>6, <2>3 DEF DistinctOrders, Advanced
  <2> QED
      BY <1>2, <1>3, <2>1, <2>2, <2>4 DEF ExactPass, ExactCopies, Advanced
<1>9. Others(r) /\ \A n \in Orders : ~Owes(sweep[r], n)
    BY <1>2, <1>4, OnlyOne DEF Owes, Saving
<1>10. sweep'[r] = p /\ \A q \in Replicas : q # r => sweep'[q] = sweep[q]
    BY <1>3 DEF BookInv, Types
<1>11. Alone'
    BY <1>9, <1>10 DEF Alone, Others
<1>12. ASSUME NEW q \in Replicas PROVE ExactPass(sweep[q])'
  <2>1. CASE q = r
    <3>1. PICK t : t = sweep'[q]
        OBVIOUS
    <3> QED
        BY <1>8, <1>10, <2>1 DEF ExactPass, ExactCopies, DistinctOrders
  <2>2. CASE q # r
    <3>1. sweep'[q].at = "idle" /\ sweep'[q].makers = <<>>
        BY <1>9, <1>10, <2>2 DEF Others, Exact, ExactPass
    <3> QED
        BY <3>1 DEF ExactPass, ExactCopies, DistinctOrders, Matching, Saving
  <2> QED
      BY <2>1, <2>2
<1>13. ASSUME NEW n \in Orders PROVE RowExact(n)' /\ WithinSize(n)'
  <2>1. CASE n \in {o, m}
    <3>1. Owes(p, n)
        BY <1>2, <1>3, <2>1 DEF Owes, Advanced, Saving
    <3>2. Owes(sweep'[r], n)
        BY <1>10, <3>1
    <3>3. RowExact(n)'
        BY <3>2 DEF RowExact, Owes
    <3>4. settled'[n] <= terms[n].amount
        BY <1>4, <1>5, <1>7, <2>1
    <3> QED
        BY <1>1, <3>3, <3>4 DEF WithinSize
  <2>2. CASE n \notin {o, m}
    <3>1. settled'[n] = settled[n]
        BY <1>5, <2>2
    <3>2. row[n].status \in Resting => row[n].filled = settled[n]
        BY <1>9, BookExact
    <3> QED
        BY <1>1, <3>1, <3>2 DEF RowExact, WithinSize, Exact
  <2> QED
      BY <2>1, <2>2
<1> QED
    BY <1>11, <1>12, <1>13 DEF Exact

\* A step of a user: the sweeps go on, and a row it writes is exact or off the
\* book.
LEMMA ExactStays ==
    ASSUME Exact, UNCHANGED <<sweep, settled>>,
           \A n \in Orders :
              /\ terms'[n] = terms[n] \/ settled[n] = 0
              /\ \/ row'[n] = row[n]
                 \/ row'[n].status \notin Resting
                 \/ row'[n].filled = settled[n]
    PROVE  Exact'
<1>1. Alone'
    BY DEF Exact, Alone
<1>2. \A q \in Replicas : ExactPass(sweep[q])'
    BY DEF Exact, ExactPass, ExactCopies, DistinctOrders
<1>3. ASSUME NEW n \in Orders PROVE RowExact(n)' /\ WithinSize(n)'
  <2>1. RowExact(n)'
      BY DEF Exact, RowExact, Owes
  <2>2. WithinSize(n)'
      BY DEF Exact, WithinSize
  <2> QED
      BY <2>1, <2>2
<1> QED
    BY <1>1, <1>2, <1>3 DEF Exact

LEMMA ExactNext ==
    ASSUME BookInv, ExactInv, [Next]_vars
    PROVE  ExactInv'
<1> SUFFICES ASSUME faults' = {} PROVE Exact'
    BY DEF ExactInv
<1>1. faults = {}
  <2>1. faults \subseteq faults'
    <3>1. ASSUME NEW r \in Replicas, Step(r) PROVE faults \subseteq faults'
        BY <3>1 DEF Step, ReadPrice, FindStops, ArmStop, ListOrders, EndSweep, MatchOrder,
                    ExpireOrder, CheckTrigger, TriggerOrder, QueryThrows, FindMakers,
                    KillOrder, RecordFill, FillThrows, FillsDone, SaveTaker, SaveMaker,
                    MatchThrows, Trouble, history
    <3>2. ASSUME NEW r \in Replicas, StartSweep(r) \/ Crash(r) PROVE faults \subseteq faults'
        BY <3>2 DEF StartSweep, Crash, Trouble, history
    <3>3. ASSUME NEW o \in Orders,
                 SaveOrder(o) \/ \E t \in TermsOf[o] : CheckOrder(o, t)
          PROVE  faults \subseteq faults'
        BY <3>3 DEF CheckOrder, SaveOrder, history
    <3>4. ASSUME NEW o \in Orders, CancelRead(o) \/ CancelSave(o) \/ Expire(o)
          PROVE  faults \subseteq faults'
        BY <3>4 DEF CancelRead, CancelSave, Expire, history
    <3>5. ASSUME NEW p \in Prices, DirectTrade(p) PROVE faults \subseteq faults'
        BY <3>5 DEF DirectTrade
    <3>6. ASSUME UNCHANGED vars PROVE faults \subseteq faults'
        BY <3>6 DEF vars
    <3> QED
        BY <3>1, <3>2, <3>3, <3>4, <3>5, <3>6 DEF Next
  <2> QED
      BY <2>1
<1>2. Exact
    BY <1>1 DEF ExactInv
<1>3. ASSUME UNCHANGED vars PROVE Exact'
    BY <1>2, <1>3, ExactStays DEF vars
<1>4. ASSUME NEW o \in Orders, SaveOrder(o) PROVE Exact'
  <2>1. /\ row' = [row EXCEPT ![o].status = "open"]
        /\ o \notin Existing /\ UNCHANGED <<terms, sweep, settled>>
      BY <1>4 DEF SaveOrder
  <2>2. row[o] = NoRow /\ settled[o] = 0
      BY <2>1 DEF BookInv, OrderOK
  <2>3. row'[o].filled = 0
    <3>1. row \in [Orders -> Rows]
        BY DEF BookInv, Types
    <3>2. row'[o] = [NoRow EXCEPT !.status = "open"]
        BY <2>1, <2>2, <3>1
    <3> QED
        BY <3>2 DEF NoRow
  <2>4. \A n \in Orders : n # o => row'[n] = row[n]
      BY <2>1 DEF BookInv, Types
  <2> QED
      BY <1>2, <2>1, <2>2, <2>3, <2>4, ExactStays
<1>5. ASSUME NEW o \in Orders, CancelSave(o) PROVE Exact'
  <2>1. PICK c : c = [cancelling[o] EXCEPT !.status = "cancelled"]
      OBVIOUS
  <2>2. row' = [row EXCEPT ![o] = c] /\ UNCHANGED <<terms, sweep, settled>>
      BY <1>5, <2>1 DEF CancelSave, history
  <2>3. c.status = "cancelled"
    <3>1. cancelling[o] \in Rows
        BY DEF BookInv, Types
    <3> QED
        BY <2>1, <3>1 DEF Rows
  <2>4. \A n \in Orders : row'[n] = row[n] \/ row'[n].status \notin Resting
      BY <2>2, <2>3 DEF BookInv, Types, Resting
  <2> QED
      BY <1>2, <2>2, <2>4, ExactStays
<1>6. ASSUME NEW o \in Orders, CancelRead(o) \/ Expire(o) PROVE Exact'
    BY <1>2, <1>6, ExactStays DEF CancelRead, Expire, history
<1>7. ASSUME NEW p \in Prices, DirectTrade(p) PROVE Exact'
    BY <1>2, <1>7, ExactStays DEF DirectTrade
<1>10. ASSUME NEW o \in Orders, NEW t \in TermsOf[o], CheckOrder(o, t) PROVE Exact'
  <2>1. /\ o \notin Existing /\ terms' = [terms EXCEPT ![o] = t]
        /\ UNCHANGED <<row, sweep, settled>>
      BY <1>10, SavedTerms DEF CheckOrder, history
  <2>2. settled[o] = 0
      BY <2>1 DEF BookInv, OrderOK
  <2>3. \A n \in Orders : n # o => terms'[n] = terms[n]
      BY <2>1 DEF BookInv, Types
  <2> QED
      BY <1>2, <2>1, <2>2, <2>3, ExactStays
<1>8. ASSUME NEW r \in Replicas, StartSweep(r) PROVE Exact'
    BY <1>2, <1>8, ExactStarts
<1>9. ASSUME NEW r \in Replicas, Step(r) \/ Crash(r) PROVE Exact'
    BY <1>2, <1>9, ExactPrices, ExactStops, ExactArms, ExactLists, ExactLeaves, ExactTakes,
       ExactChecks, ExactTriggers, ExactFinds, ExactFills, ExactSavesTaker,
       ExactSavesMaker DEF Step
<1> QED
    BY <1>3, <1>4, <1>5, <1>6, <1>7, <1>8, <1>9, <1>10 DEF Next

\* No order is settled beyond its size, unless the sweeps of two replicas
\* overlapped or a settled fill was not written down: what a sweep reads before
\* a fill is then all that has been settled, so the open size it computes is the
\* real one, whatever cancellations write in the meantime.
THEOREM SettledWithinSizeHolds == Spec => []SettledWithinSize
<1>1. Init => ExactInv
    BY ExactInit
<1>2. BookInv /\ ExactInv /\ [Next]_vars => ExactInv'
    BY ExactNext
<1>3. BookInv /\ ExactInv => SettledWithinSize
  <2> SUFFICES ASSUME BookInv, Exact, NEW o \in Existing PROVE settled[o] <= terms[o].amount
      BY DEF ExactInv, SettledWithinSize
  <2>1. o \in Orders /\ terms[o].amount \in Nat
      BY Sizes
  <2>2. settled[o] = 0 \/ settled[o] <= terms[o].amount
      BY <2>1 DEF Exact, WithinSize
  <2> QED
      BY <2>1, <2>2
<1> QED
    BY <1>1, <1>2, <1>3, BookInvHolds, PTL DEF Spec
=============================================================================
