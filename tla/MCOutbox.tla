------------------------------ MODULE MCOutbox ------------------------------
(* Small instances of Outbox: the constants are model values and numbers.  *)
EXTENDS Outbox
=============================================================================
