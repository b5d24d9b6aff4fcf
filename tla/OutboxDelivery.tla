--------------------------- MODULE OutboxDelivery ---------------------------
(***************************************************************************)
(* What the outbox promises its callers, without rows, batches or retries: *)
(* an event is published when the caller's transaction commits; only       *)
(* published events are delivered; each process delivers an event once,    *)
(* and once more for every lapse (a crash, a lost confirmation, a failing  *)
(* statement); only a delivered event is settled.  Nothing is taken back.  *)
(***************************************************************************)
EXTENDS Integers

CONSTANTS Events, Workers

VARIABLES
  published,  \* the events whose transaction has committed
  copies,     \* copies[w][e]: how often process w has delivered event e
  settled,    \* the events that need no further delivery
  lapses      \* how often something went wrong

deliveryVars == <<published, copies, settled, lapses>>

DeliveryInit ==
  /\ published = {} /\ settled = {}
  /\ copies = [w \in Workers |-> [e \in Events |-> 0]]
  /\ lapses = 0

Publish(e) ==
  /\ published' = published \cup {e}
  /\ UNCHANGED <<copies, settled, lapses>>

\* A delivery may itself be the lapse: the broker has the event, its
\* confirmation does not arrive.
Deliver(w, e) ==
  /\ e \in published
  /\ copies[w][e] <= lapses
  /\ copies' = [copies EXCEPT ![w][e] = @ + 1]
  /\ lapses' \in {lapses, lapses + 1}
  /\ UNCHANGED <<published, settled>>

Settle(e) ==
  /\ \E w \in Workers : copies[w][e] > 0
  /\ settled' = settled \cup {e}
  /\ UNCHANGED <<published, copies, lapses>>

Lapse ==
  /\ lapses' = lapses + 1
  /\ UNCHANGED <<published, copies, settled>>

DeliveryNext ==
  \/ \E e \in Events : Publish(e) \/ Settle(e)
  \/ \E w \in Workers, e \in Events : Deliver(w, e)
  \/ Lapse

DeliverySpec == DeliveryInit /\ [][DeliveryNext]_deliveryVars
=============================================================================
