\* miner.go:474 when a worker is on its way into its engine.
CONSTANTS
    NWorkers = 1
    MaxRuns = 1
    MaxJobs = 2
    MaxCalls = 0
    JobChCap = 1
SPECIFICATION Spec
INVARIANTS NoStaleMining
CHECK_DEADLOCK FALSE
