------------------------------ MODULE MCWorkers ------------------------------
(* Small instances of MinerWorkers: workers, jobs and channels are numbers *)
(* in the order of their loops, so there is no symmetry to use.            *)
EXTENDS MinerWorkers

=============================================================================
