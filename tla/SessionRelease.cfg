\* Two clients and one IO thread, every release followed to its end.
CONSTANTS
  Sessions = {s1, s2}
  IoThreads = {io1}
  Accept = accept
  Logic = logic
  MaxSends = 1
  None = none
SPECIFICATION Spec
CHECK_DEADLOCK FALSE
PROPERTIES
  CleanupUnlessDeadlocked
