------------------------------- MODULE MCPool -------------------------------
(* Small instances of PoolManager: the pools are numbers, in order of      *)
(* priority, so there is no symmetry to use.                               *)
EXTENDS PoolManager

=============================================================================
