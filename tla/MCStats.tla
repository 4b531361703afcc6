------------------------------ MODULE MCStats ------------------------------
(* Small instances of HashStats.                                           *)
EXTENDS HashStats, TLC

=============================================================================
