CONSTANTS
  n1 = n1
  n2 = n2
  n3 = n3
  n4 = n4
  h1 = h1
  h2 = h2
  Node <- MCNode
  Hash <- MCHashOne
  Sender <- MCSender
  GroupId <- MCGroupId
  Group <- MCGroup
  Loaded <- MCLoaded
  Q = 2
  BSize = 1
  BroadcastByGroup = FALSE
  BroadcastBySample = FALSE
  Threshold = 2
  LoadBalance = TRUE
SPECIFICATION Spec
CHECK_DEADLOCK FALSE
INVARIANT QAcks
