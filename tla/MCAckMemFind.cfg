CONSTANTS
  n1 = n1
  n2 = n2
  h1 = h1
  h2 = h2
  Node <- MCNode
  Hash <- MCHash
  GroupId <- MCGroupId
  Q = 3
  BSize = 1
  BroadcastByGroup = TRUE
SPECIFICATION Spec
INVARIANT FindsStored
