CONSTANTS
  n1 = n1
  n2 = n2
  n3 = n3
  n4 = n4
  Node <- MCNode
  LastNode = n4
  Hashed <- MCHashed
  MaxView = 4
  MaxTimeouts = 1
SYMMETRY MCSymmetry
SPECIFICATION Spec
CHECK_DEADLOCK FALSE
INVARIANTS TypeOK OneBlockPerView QCBackedByVotes QCBuiltOnce QuietMeansCommitted
PROPERTY LedgerRefined
