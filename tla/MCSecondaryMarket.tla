------------------------- MODULE MCSecondaryMarket -------------------------
(* Three orders: a sale, a purchase that may be fill-or-kill, and a third that *)
(* is a stop, in either direction, or a second sale.                           *)
EXTENDS SecondaryMarket

Order(user, side, type, price, amount, trigger, above, expires) ==
    [user |-> user, side |-> side, type |-> type, price |-> price,
     amount |-> amount, trigger |-> trigger, above |-> above, expires |-> expires]

MCTermsOf ==
    << {Order("u", "sell", "limit", 1, 1, 0, FALSE, FALSE)},
       {Order("v", "buy", t, 2, 2, 0, FALSE, FALSE) : t \in {"limit", "fok"}},
       {Order("w", "sell", "stop_loss", 2, 1, 1, above, TRUE) : above \in BOOLEAN}
         \cup {Order("v", "sell", "limit", 2, 2, 0, FALSE, FALSE)} >>
=============================================================================
