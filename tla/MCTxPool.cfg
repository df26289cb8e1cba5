CONSTANTS
  Poolsize = 5
  nums = 2
  Batch = 4
  Mb_broadcast = 1
  MaxTx = 12
SPECIFICATION FairSpec
INVARIANTS NoLostWakeup CheckStillHolds NothingVanishes
PROPERTY PoolDrains
CHECK_DEADLOCK FALSE
