\* Two logic threads with an actor each, a thread outside.
CONSTANTS
  NumOfLogicThread = 2
  Outside = {main}
  NumOfActors = 2
  MaxCalls = 4
SPECIFICATION RegistrySpec
CHECK_DEADLOCK FALSE
INVARIANTS
  RegistryInv
  
PROPERTIES
  CallsReturnUnlessDeadlocked
