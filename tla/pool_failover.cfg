\* README.md:374 against two pools, the first of which goes away for good.
CONSTANT NPools = 2
SPECIFICATION FairSpec
PROPERTIES Failover
CHECK_DEADLOCK FALSE
