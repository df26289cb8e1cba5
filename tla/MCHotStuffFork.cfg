CONSTANTS
  n1 = n1
  n2 = n2
  n3 = n3
  n4 = n4
  Node <- MCNode
  LastNode = n4
  Hashed <- MCHashed
  MaxView = 8
  MaxTimeouts = 10
SPECIFICATION ForkSpec
CHECK_DEADLOCK FALSE
INVARIANT Agreement
