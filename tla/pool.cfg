\* Three pools, started and stopped, with the health check throughout.
CONSTANT NPools = 3
SPECIFICATION FairSpec
INVARIANTS TypeOK CurrentServed OnePoolActive PriorityRespected SwitchOnlyOnceStopped QuietOnceCancelled
PROPERTIES ClientsUsedAsSpecified StopReturns
\* The checker may have ended, and every client be at rest.
CHECK_DEADLOCK FALSE
