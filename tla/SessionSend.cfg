\* One logic thread, two IO threads, batches of two packets.  The run ends
\* where the callers have sent MaxPackets: hence no deadlock check.
SPECIFICATION Spec
CONSTANTS
  Callers = {logic}
  IoThreads = {io1, io2}
  ONE_SEND_WSABUF_MAX = 2
  MaxPackets = 5
INVARIANTS
  SendInv
  PacketsInOrder
PROPERTIES
  DoSendReturns
CHECK_DEADLOCK FALSE
