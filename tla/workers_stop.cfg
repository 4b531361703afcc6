\* README.md:1030 when a worker and Stop close the same channel.
CONSTANTS
    NWorkers = 1
    MaxRuns = 1
    MaxJobs = 2
    MaxCalls = 0
    JobChCap = 1
SPECIFICATION Spec
INVARIANTS NoPanic
CHECK_DEADLOCK FALSE
