\* Two transactions over two participants.  The run ends where no id is left.
CONSTANTS
  Participants = {p1, p2}
  LastId = 3
SPECIFICATION Spec
CHECK_DEADLOCK FALSE
INVARIANTS
  MediatorInv
PROPERTIES
  TransactionsEnd
  ImplementsAtomicCommit
