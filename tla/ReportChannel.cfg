SPECIFICATION Spec
CONSTANTS
  FrameLen = 4
  MAX_SEND_BUFFER_SIZE = 13
  MAX_RECV_BUFFER_SIZE = 9
  KernelCap = 11
  NumReports = 4
INVARIANTS TypeOK LostOnlyIfExposed
PROPERTY FifoUntilExposed
CHECK_DEADLOCK FALSE
