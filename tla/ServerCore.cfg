\* Two IO threads, two thread indices, two clients.  The process ends where
\* the accept thread throws: hence no deadlock check.
CONSTANTS
  NumOfWorkerThread = 2
  NumOfLogicThread = 2
  MaxConnections = 2
SPECIFICATION Spec
CHECK_DEADLOCK FALSE
INVARIANTS
  ServerInv
  EraseAllAfterIo
  UserCountIsSessions

  
  
