\* Two clients, two IO threads, two logic threads.  The run ends where the
\* clients have closed: hence no deadlock check.
CONSTANTS
  IoThreads = {io1, io2}
  Keys = {k1, k2}
  NoKey = none
  NumOfLogicThread = 2
  MaxSessions = 2
  HeaderSize = 1
  PayloadSize = 2
  MaxPackets <- ClientPackets
SPECIFICATION Spec
CHECK_DEADLOCK FALSE
INVARIANTS
  IoInv
  
  WholePacketsInOrder
  CountExactUntilKeyShared
