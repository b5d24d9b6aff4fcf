-------------------------- MODULE MCEscrowRelease ---------------------------
(***************************************************************************)
(* Instances of EscrowRelease for TLC.                                     *)
(***************************************************************************)
EXTENDS EscrowRelease

MCKeys == {DealLease, PayLease}
=============================================================================
