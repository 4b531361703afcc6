\* One engine, two goroutines that call it, three jobs for a cache of two.
CONSTANTS
    Callers = {p1, p2}
    Jobs = {j1, j2, j3}
    NoJob = NoJob
    MaxNonce = 3
    StartNonces = {0, 1}
    MaxItems = 2
    MaxCalls = 4
    MaxStops = 1
SPECIFICATION Spec
INVARIANTS TypeOK NoRescan NoDuplicateShare CacheInStep
SYMMETRY Symmetry
\* The calls run out.
CHECK_DEADLOCK FALSE
