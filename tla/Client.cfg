\* A Pong of three units, recv() returns at most two; main sends two Pings,
\* the server answers two.  Ends when the client has stopped.
SPECIFICATION Spec
CONSTANTS
  Header = 1
  Payload = 2
  RecvMax = 2
  RingSize = 4
  MaxSends = 2
  MaxPongs = 2
INVARIANTS
  ClientInv
  PongsInOrder
  NoSleepingSender
PROPERTIES
  PongIsHandled
  StopReturnsOncePeerCloses
CHECK_DEADLOCK FALSE
