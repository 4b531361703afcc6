\* Two workers and the hash reporter share a connection that comes and goes.
CONSTANTS
    Workers = {w1, w2}
    Reporter = r
    Conns = {k1, k2}
    NoConn = NoConn
    Nobody = Nobody
    MaxWriteFails = 2
    MaxRequests = 2
    MaxHashes = 1
SPECIFICATION FairSpec
INVARIANTS TypeOK OwnVerdict CountedAsAnswered DeliverNeverBlocks StuckConnClosed
PROPERTIES SubmitReturns
\* The requests and hashes run out.
CHECK_DEADLOCK FALSE
