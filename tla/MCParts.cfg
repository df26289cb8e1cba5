CONSTANTS
  capacity = 3
  quantum = 2
  fillInterval = 2
  Readers = {a1, a2}
  Counts = {1, 3, 4}
  MaxWaits = {0, 2}
  Unread = Unread
  MaxTime = 4
  MaxGranted = 6
  T = 9
  N = 0
  Concurrency = 5
  interval = 2
  credit = 2
  MaxClock = 10
SPECIFICATION PartsSpec
CHECK_DEADLOCK FALSE
INVARIANTS
  RateBound
  ThrottleBound
  CountedOnce ResultsBacked QuietMeansExecuted
  StuckCauses
  OnceInOrder QuietMeansArrived
  RatesAddUp
  DealtInTurn
  PicksSucceed
  ProofsVerify
  BatchesFit QueueConsistent
  OneProposalPerView QCsDescend
PROPERTY EarliestFirst
