\* A worker with two goroutines, jobs that replace each other, a Pause, Resumes, a Stop.
CONSTANTS
    NWorkers = 1
    MaxRuns = 2
    MaxJobs = 2
    MaxCalls = 1
    JobChCap = 1
SPECIFICATION FairSpec
INVARIANTS TypeOK EngineExclusive CaughtAreSignalled
PROPERTIES JobsGoForward CaughtComeOut
\* Everything has stopped, or the process has panicked.
CHECK_DEADLOCK FALSE
