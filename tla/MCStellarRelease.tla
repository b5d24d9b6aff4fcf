-------------------------- MODULE MCStellarRelease --------------------------
(* Three investors in two batches.  The numbers are a case in which doubles *)
(* miss the rounded share: (29 / 100) * 100 is 28.999999999999996.          *)
EXTENDS StellarRelease

MCTokens == <<29, 42, 29>>
MCDrift == <<-1, 0, -1>>
=============================================================================
