---------------------------- MODULE MCLifecycle ----------------------------
(* Small instances of StratumLifecycle.  Channels and sockets are numbers, *)
(* allocated lowest first, so they need no symmetry; Callers and Loops are *)
(* interchangeable.                                                        *)
EXTENDS StratumLifecycle, TLC

Symmetry == Permutations(Callers) \cup Permutations(Loops)

=============================================================================
