\* Two clients with two logs each.  The run ends where all have been written
\* and the clients have stopped: hence no deadlock check.
CONSTANTS
  Clients = {c1, c2}
  MaxLogs = 2
SPECIFICATION LoggerSpec
CHECK_DEADLOCK FALSE
INVARIANTS
  LoggerInv
  StopFlushes
PROPERTIES
  SignalledIsWritten
