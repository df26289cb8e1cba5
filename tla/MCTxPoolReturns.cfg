CONSTANTS
  Poolsize = 5
  nums = 2
  Batch = 4
  Mb_broadcast = 1
  MaxTx = 12
SPECIFICATION FairSpec

PROPERTY AddTxReturns
CHECK_DEADLOCK FALSE
