\* Two clients that come and go, two IO threads, one send each.
CONSTANTS
  Sessions = {s1, s2}
  IoThreads = {io1, io2}
  Accept = accept
  Logic = logic
  MaxSends = 1
  None = none
SPECIFICATION Spec
CHECK_DEADLOCK FALSE
INVARIANTS
  LifecycleInv
  
  NoReleaseLost
  DisconnectedAtMostOnce

  
