SPECIFICATION Spec
CONSTANTS
  FrameLen = 4
  MAX_SEND_BUFFER_SIZE = 13
  MAX_RECV_BUFFER_SIZE = 9
  KernelCap = 14
  NumTasks = 5
INVARIANTS TypeOK AcceptedNotLost
PROPERTY ImplementsFifo
CHECK_DEADLOCK FALSE
