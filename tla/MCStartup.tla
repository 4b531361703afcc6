----------------------------- MODULE MCStartup -----------------------------
(* Small instances of Startup.                                             *)
EXTENDS Startup, TLC

CONSTANTS a1, a2

PoolEntry(priority, enabled) ==
    [priority |-> priority, enabled |-> enabled, address |-> a1]

MCFiles ==
    {[pools |-> <<>>, threads |-> 1],
     [pools |-> <<PoolEntry(0, TRUE)>>, threads |-> 1],
     [pools |-> <<PoolEntry(1, TRUE)>>, threads |-> -1],
     [pools |-> <<[PoolEntry(1, TRUE) EXCEPT !.address = BadAddress]>>, threads |-> 1],
     [pools |-> <<PoolEntry(1, FALSE)>>, threads |-> 0],
     [pools |-> <<PoolEntry(1, FALSE), PoolEntry(2, TRUE)>>, threads |-> 2],
     [pools |-> <<PoolEntry(1, TRUE), PoolEntry(3, TRUE), PoolEntry(2, TRUE)>>,
      threads |-> 0],
     [pools |-> <<PoolEntry(2, TRUE), PoolEntry(2, TRUE), PoolEntry(1, TRUE)>>,
      threads |-> 1]}

Override(threads, address) == [threads |-> threads, address |-> address]

MCEnvironments ==
    {Override(Unset, Unset), Override(-1, a2), Override(3, BadAddress)}

MCFlagSets ==
    {Override(0, Unset), Override(4, a2), Override(0, BadAddress)}

=============================================================================
