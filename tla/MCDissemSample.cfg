CONSTANTS
  n1 = n1
  n2 = n2
  n3 = n3
  n4 = n4
  h1 = h1
  h2 = h2
  Node <- MCNodeFour
  Hash <- MCHashOne
  Sender <- MCSender
  GroupId <- MCGroupId
  Group <- MCGroup
  Loaded <- MCLoaded
  Q = 3
  BSize = 2
  BroadcastByGroup = FALSE
  BroadcastBySample = TRUE
  Threshold = 3
  LoadBalance = FALSE
SPECIFICATION FairSpec
CHECK_DEADLOCK FALSE
INVARIANTS NeverRequested Availability CertificateSound NoEarlyAck
PROPERTY Settles
