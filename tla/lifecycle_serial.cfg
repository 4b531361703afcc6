\* One owner calls Connect and Close in turn, as the pool manager does.
CONSTANTS
    Callers = {c1}
    Loops = {l1, l2}
    Conns = {1, 2, 3}
    Chans = {1, 2, 3, 4, 5, 6}
    InitialDelay = 2
    MaxDelay = 5
SPECIFICATION FairSpec
INVARIANTS TypeOK OneReadLoop ClosedIsQuiet ServedConnection NoPanic
PROPERTIES ImplementsClient Reconnects CloseReturns
\* After a failed Connect, Close waits for a readLoop that was never started.
CHECK_DEADLOCK FALSE
