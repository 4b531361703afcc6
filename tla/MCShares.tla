------------------------------ MODULE MCShares ------------------------------
(* Small instances of StratumShares.  FreshConn chooses a socket, so the   *)
(* sockets are not declared symmetric.                                     *)
EXTENDS StratumShares

=============================================================================
