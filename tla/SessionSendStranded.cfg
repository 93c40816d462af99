\* The lost wake-up: an Enqueue between the size check and the release.
SPECIFICATION Spec
CONSTANTS
  Callers = {logic}
  IoThreads = {io1}
  ONE_SEND_WSABUF_MAX = 2
  MaxPackets = 2
INVARIANTS
  NoStrandedPacket
CHECK_DEADLOCK FALSE
