\* Two events and ticks that come in time or late.  The system stops where
\* Stop() has returned: hence no deadlock check.
CONSTANTS
  Events = {1, 2}
  Interval = 2
  MaxDelay = 2
SPECIFICATION TickerSpec
CHECK_DEADLOCK FALSE
INVARIANTS
  TickerInv
  AtMostOneLateFire
PROPERTIES
  FiresAtLeastIntervalApart
  RegisteredEventFires
  StopReturnsOnceRunning
